---- MODULE Spec2Model ----
(***************************************************************************)
(* gtkrypt-crypto: container header codec, Argon2id key derivation,        *)
(* streaming AES-256-GCM encrypt and decrypt pipelines over a small file   *)
(* system, with an adversary that edits the container between the two.     *)
(*                                                                         *)
(* A file is a sequence of byte atoms.  A byte atom is a record with the   *)
(* field v (the value 0..255 a reader sees).  Bytes produced by AES-GCM    *)
(* carry, besides v, the symbolic term they were computed from: the cipher *)
(* and the KDF are modelled in the symbolic (Dolev-Yao) style, so two tags *)
(* or two keys are equal exactly when all of their inputs are equal.       *)
(*                                                                         *)
(* Fixed-width machine integers that can exceed the integers of TLC        *)
(* (u32, u64, usize) are sequences of base-256 digits, most significant    *)
(* first, with wrapping arithmetic on the digits.                          *)
(***************************************************************************)
EXTENDS Integers, Sequences, FiniteSets, TLC

(***************************************************************************)
(* Program constants (header.rs)                                           *)
(***************************************************************************)
MAGIC == <<71, 84, 75, 82, 89, 80, 84, 0>>
VERSION == 2
KDF_ID_ARGON2ID == 1
SALT_LEN == 16
NONCE_LEN == 12
TAG_LEN == 16
\* header.rs sets CHUNK_SIZE = 65536; the model runs the same arithmetic
\* with a chunk of ChunkBytes bytes so that multi-chunk files stay small.
ChunkBytes == 2
CHUNK_SIZE == ChunkBytes
AAD_LENGTH == Len(MAGIC) + 1 + 1 + 4 + 4 + 1 + 1 + SALT_LEN + 1 + NONCE_LEN

(***************************************************************************)
(* Bounds of the model                                                     *)
(***************************************************************************)
\* longest plaintext
MaxLen == 4
\* longest byte string the adversary appends
MaxSuffix == 2

(***************************************************************************)
(* Sequences                                                               *)
(***************************************************************************)
Min(a, b) == IF a < b THEN a ELSE b

Last(s) == s[Len(s)]

Front(s) == SubSeq(s, 1, Len(s) - 1)

\* the Rust slice s[from..to] (0-based, end exclusive)
Slice(s, from, to) == SubSeq(s, from + 1, to)

Repeat(x, n) == [i \in 1..n |-> x]

(***************************************************************************)
(* Fixed-width unsigned integers as big-endian digit sequences             *)
(***************************************************************************)
RECURSIVE BE(_, _)
\* n.to_be_bytes() for a value n TLC can hold, in len bytes
BE(n, len) == IF len = 0 THEN <<>> ELSE Append(BE(n \div 256, len - 1), n % 256)

RECURSIVE BEAddC(_, _, _)
BEAddC(a, b, c) ==
    IF Len(a) = 0 THEN <<>>
    ELSE LET s == Last(a) + Last(b) + c
         IN  Append(BEAddC(Front(a), Front(b), s \div 256), s % 256)

\* wrapping_add of two integers of the same width (x and y name the values
\* of a and b, so that each is computed once)
BEAdd(a, b) == CHOOSE sum \in {BEAddC(x, y, 0) : x \in {a}, y \in {b}} : TRUE

RECURSIVE BECarry(_, _, _)
\* the carry out of the most significant digit of a + b + c
BECarry(a, b, c) ==
    IF Len(a) = 0 THEN c
    ELSE BECarry(Front(a), Front(b), (Last(a) + Last(b) + c) \div 256)

\* a + b does not fit the width
BEAddOverflows(a, b) == \E x \in {a}, y \in {b} : BECarry(x, y, 0) > 0

RECURSIVE BEMulC(_, _, _)
BEMulC(a, k, c) ==
    IF Len(a) = 0 THEN <<>>
    ELSE LET s == Last(a) * k + c
         IN  Append(BEMulC(Front(a), k, s \div 256), s % 256)

\* wrapping_mul by a small factor
BEMul(a, k) == CHOOSE product \in {BEMulC(x, k, 0) : x \in {a}} : TRUE

RECURSIVE BEDivR(_, _, _)
BEDivR(a, d, r) ==
    IF Len(a) = 0 THEN <<>>
    ELSE LET cur == r * 256 + Head(a)
         IN  <<cur \div d>> \o BEDivR(Tail(a), d, cur % d)

\* integer division by a small divisor
BEDiv(a, d) == CHOOSE quotient \in {BEDivR(x, d, 0) : x \in {a}} : TRUE

RECURSIVE BELt(_, _)
\* a < b for two integers of the same width
BELt(a, b) ==
    IF Len(a) = 0 THEN FALSE
    ELSE IF Head(a) # Head(b) THEN Head(a) < Head(b)
    ELSE BELt(Tail(a), Tail(b))

BEIsZero(a) == \A i \in 1..Len(a) : a[i] = 0

\* widen (zero-extend) or narrow (truncate) to len digits: the `as` cast
BECast(a, len) ==
    IF Len(a) >= len THEN SubSeq(a, Len(a) - len + 1, Len(a))
    ELSE Repeat(0, len - Len(a)) \o a

\* the digit sequence holds a value below 2^24
BESmall(a) == \A i \in 1..(Len(a) - 3) : a[i] = 0

RECURSIVE BEDigits(_)
BEDigits(a) == IF Len(a) = 0 THEN 0 ELSE BEDigits(Front(a)) * 256 + Last(a)

\* the value of a digit sequence as a number TLC can hold; a value of 2^24
\* or more, beyond the length of every file here, is held as 2^24
BEVal(a) == IF BESmall(a) THEN BEDigits(a) ELSE 16777216

U32_MAX == <<255, 255, 255, 255>>

(***************************************************************************)
(* Byte atoms                                                              *)
(***************************************************************************)
Raw(n) == [v |-> n]

RawSeq(bytes) == [i \in 1..Len(bytes) |-> Raw(bytes[i])]

\* what a reader sees of a sequence of atoms
Vals(atoms) == [i \in 1..Len(atoms) |-> atoms[i].v]

(***************************************************************************)
(* Header codec (header.rs)                                                *)
(***************************************************************************)
\* A ContainerHeader is a record
\*   [version, kdf_id, kdf_params : [time_cost, memory_cost_kib, parallelism],
\*    salt, nonce, filename : [some, bytes], mode : [some, bits],
\*    original_file_size, ciphertext_length]
\* u8 fields are numbers, u32 fields 4 digits, u64 fields 8 digits.

encode_header(header) ==
    LET filename_bytes == IF header.filename.some THEN header.filename.bytes ELSE <<>>
        filename_len   == BE(Len(filename_bytes) % 65536, 2)
        mode           == IF header.mode.some THEN header.mode.bits ELSE BE(0, 4)
    IN  MAGIC
        \o <<header.version>>
        \o <<header.kdf_id>>
        \o header.kdf_params.time_cost
        \o header.kdf_params.memory_cost_kib
        \o BECast(header.kdf_params.parallelism, 1)
        \o <<SALT_LEN>>
        \o header.salt
        \o <<NONCE_LEN>>
        \o header.nonce
        \o filename_len
        \o filename_bytes
        \o (IF header.version >= 2 THEN mode ELSE <<>>)
        \o header.original_file_size
        \o header.ciphertext_length

extract_aad(header_bytes) == Slice(header_bytes, 0, AAD_LENGTH)

IsCont(b, lo, hi) == lo <= b /\ b <= hi

RECURSIVE ValidUtf8(_)
\* String::from_utf8 accepts exactly the well-formed UTF-8 byte strings
ValidUtf8(b) ==
    IF Len(b) = 0 THEN TRUE
    ELSE LET c == b[1]
             n == Len(b)
             rest(k) == ValidUtf8(SubSeq(b, k + 1, n))
         IN  IF c <= 127 THEN rest(1)
             ELSE IF 194 <= c /\ c <= 223
                  THEN n >= 2 /\ IsCont(b[2], 128, 191) /\ rest(2)
             ELSE IF 224 <= c /\ c <= 239
                  THEN /\ n >= 3
                       /\ IsCont(b[2], IF c = 224 THEN 160 ELSE 128,
                                       IF c = 237 THEN 159 ELSE 191)
                       /\ IsCont(b[3], 128, 191)
                       /\ rest(3)
             ELSE IF 240 <= c /\ c <= 244
                  THEN /\ n >= 4
                       /\ IsCont(b[2], IF c = 240 THEN 144 ELSE 128,
                                       IF c = 244 THEN 143 ELSE 191)
                       /\ IsCont(b[3], 128, 191)
                       /\ IsCont(b[4], 128, 191)
                       /\ rest(4)
             ELSE FALSE

HeaderErr(e) == [err |-> e]

\* decode_header(data): [err |-> "none", header, consumed] or [err |-> kind].
\* "Panic" is the out-of-range slice data[51..51 + filename_len].
decode_header(data) ==
    IF Len(data) < 67 THEN HeaderErr("TooShort")
    ELSE IF Slice(data, 0, 8) # MAGIC THEN HeaderErr("InvalidMagic")
    ELSE IF data[9] # 1 /\ data[9] # 2 THEN HeaderErr("UnsupportedVersion")
    ELSE IF data[10] # KDF_ID_ARGON2ID THEN HeaderErr("UnsupportedKdf")
    ELSE IF data[20] # SALT_LEN THEN HeaderErr("InvalidSaltLength")
    ELSE IF data[37] # NONCE_LEN THEN HeaderErr("InvalidNonceLength")
    ELSE
    LET version      == data[9]
        filename_len == data[50] * 256 + data[51]
        offset       == 51 + filename_len
    IN  IF filename_len > 0 /\ Len(data) < offset THEN HeaderErr("Panic")
        ELSE IF filename_len > 0 /\ ~ValidUtf8(Slice(data, 51, offset))
             THEN HeaderErr("InvalidFilename")
        ELSE IF Len(data) < offset + (IF version = 1 THEN 16 ELSE 20)
             THEN HeaderErr("TooShort")
        ELSE
        LET o == IF version = 1 THEN offset ELSE offset + 4
        IN  [err      |-> "none",
             consumed |-> o + 16,
             header   |->
               [version    |-> version,
                kdf_id     |-> data[10],
                kdf_params |->
                  [time_cost       |-> Slice(data, 10, 14),
                   memory_cost_kib |-> Slice(data, 14, 18),
                   parallelism     |-> BECast(<<data[19]>>, 4)],
                salt       |-> Slice(data, 20, 36),
                nonce      |-> Slice(data, 37, 49),
                filename   |-> IF filename_len > 0
                               THEN [some |-> TRUE, bytes |-> Slice(data, 51, offset)]
                               ELSE [some |-> FALSE, bytes |-> <<>>],
                mode       |-> IF version = 1
                               THEN [some |-> FALSE, bits |-> BE(0, 4)]
                               ELSE [some |-> TRUE, bits |-> Slice(data, offset, offset + 4)],
                original_file_size |-> Slice(data, o, o + 8),
                ciphertext_length  |-> Slice(data, o + 8, o + 16)]]

RECURSIVE Xor8(_, _, _)
\* bitwise exclusive or of the low `bits` bits of two numbers
Xor8(a, b, bits) ==
    IF bits = 0 THEN 0
    ELSE 2 * Xor8(a \div 2, b \div 2, bits - 1) + ((a + b) % 2)

Xor(a, b) == Xor8(a, b, 8)

\* a faulty derive_chunk_nonce: only the low byte of the index is mixed in
derive_chunk_nonce_low(base_nonce, chunk_index) ==
    [i \in 1..NONCE_LEN |->
        IF i = NONCE_LEN THEN Xor(base_nonce[i], chunk_index[4]) ELSE base_nonce[i]]

\* chunk_index is a u32: 4 digits
derive_chunk_nonce(base_nonce, chunk_index) ==
    [i \in 1..NONCE_LEN |->
        IF i > 8 THEN Xor(base_nonce[i], chunk_index[i - 8]) ELSE base_nonce[i]]

build_chunk_aad(header_aad, chunk_index) == header_aad \o chunk_index

\* read_header_from_reader over the bytes a reader yields from its start:
\* [err |-> "none", header, consumed, header_bytes] or [err |-> kind]
read_header_from_reader(stream) ==
    IF Len(stream) < 67 THEN HeaderErr("TooShort")
    ELSE
    LET header_buf   == Slice(stream, 0, 67)
        version      == header_buf[9]
        filename_len == header_buf[50] * 256 + header_buf[51]
        total_size   == IF version = 2 THEN 71 + filename_len ELSE 67 + filename_len
    IN  IF total_size > 67 /\ Len(stream) < total_size THEN HeaderErr("TooShort")
        ELSE LET full == IF total_size > 67 THEN Slice(stream, 0, total_size)
                         ELSE header_buf
                 d    == decode_header(full)
             IN  IF d.err # "none" THEN d
                 ELSE [err |-> "none", header |-> d.header,
                       consumed |-> d.consumed, header_bytes |-> full]

(***************************************************************************)
(* Key derivation (kdf.rs) and AES-256-GCM (the aes_gcm crate)             *)
(***************************************************************************)
\* Params::new of the argon2 crate: m >= 8, m >= 8 p, t >= 1, 1 <= p < 2^24
ParamsValid(params) ==
    /\ ~BELt(params.memory_cost_kib, BE(8, 4))
    /\ BESmall(params.parallelism)
    /\ ~BELt(params.memory_cost_kib, BEMul(params.parallelism, 8))
    /\ ~BEIsZero(params.time_cost)
    /\ ~BEIsZero(params.parallelism)

\* derive_key: the 32-byte key is the symbolic term of its inputs
derive_key(passphrase, salt, params) ==
    IF ParamsValid(params)
    THEN [ok |-> TRUE,
          key |-> [pw |-> passphrase, salt |-> salt, t |-> params.time_cost,
                   m |-> params.memory_cost_kib, p |-> params.parallelism]]
    ELSE [ok |-> FALSE]

\* The AEAD is a table of the chunks sealed so far (the variable oracle):
\* entry id is [key, nonce, aad, ct].  Ciphertext byte j of entry id is the
\* plaintext byte p under keystream byte (id, j); tag byte i of entry id is
\* the i-th byte of the MAC over the whole entry.
KeystreamByte(j) == (165 + 7 * j) % 256

CtByte(id, j, p) == [v |-> Xor(p, KeystreamByte(j)), seal |-> id, j |-> j, p |-> p]

TagByte(id, i) == [v |-> (37 * i + 11 * id) % 256, seal |-> id, t |-> i]

TagBytes(id) == [i \in 1..TAG_LEN |-> TagByte(id, i)]

\* encrypt_in_place_detached: the ciphertext of a plaintext slice, sealed as id
SealCt(id, plain) == [j \in 1..Len(plain) |-> CtByte(id, j, plain[j].v)]

\* the tag check of decrypt_in_place_detached
TagOk(table, key, nonce, aad, ct, tag) ==
    \E id \in 1..Len(table) :
        /\ table[id] = [key |-> key, nonce |-> nonce, aad |-> aad, ct |-> ct]
        /\ tag = TagBytes(id)

\* CTR decryption of one byte: the plaintext when key, nonce and position
\* are those of the keystream byte, some other byte otherwise
OpenByte(table, key, nonce, j, a) ==
    IF /\ "p" \in DOMAIN a
       /\ a.seal \in 1..Len(table)
       /\ table[a.seal].key = key
       /\ table[a.seal].nonce = nonce
       /\ a.j = j
    THEN Raw(a.p)
    ELSE Raw(Xor(a.v, 60))

OpenCt(table, key, nonce, ct) ==
    [j \in 1..Len(ct) |-> OpenByte(table, key, nonce, j, ct[j])]

(***************************************************************************)
(* Progress events (progress.rs)                                           *)
(***************************************************************************)
\* a faulty emit_progress: the bytes still to do are reported
emit_progress_remaining(log, phase, bytes_processed, total_bytes) ==
    Append(log, [phase |-> phase, bytes_processed |-> total_bytes - bytes_processed,
                 total_bytes |-> total_bytes])

\* one JSON line on stdout
emit_progress(log, phase, bytes_processed, total_bytes) ==
    Append(log, [phase |-> phase, bytes_processed |-> bytes_processed,
                 total_bytes |-> total_bytes])

\* emit_error_and_exit: one error event on stderr, then the process exits
emit_error_and_exit(err_log, error_code, exit_code) ==
    [stderr |-> Append(err_log, [error |-> error_code]),
     exit   |-> [exited |-> TRUE, code |-> exit_code]]

(***************************************************************************)
(* Files                                                                   *)
(***************************************************************************)
Paths == {"input", "container", "temp", "output"}

NoFile == [exists |-> FALSE, data |-> <<>>, mode |-> 0]

\* the plaintext of n bytes
Plaintext(n) == RawSeq([i \in 1..n |-> 64 + i])

\* what the destination holds when it exists before the operation
OldFile == [exists |-> TRUE, data |-> RawSeq(<<111, 108, 100>>), mode |-> 420]

\* basename of the input path, as UTF-8 ("e" with an acute accent)
InputFileName == <<195, 169>>

\* st_mode of the input file: a regular file with mode 0640, and with 0000
InputModes == {33184, 32768}

\* key material: "pw" and "bad"
Passphrases == {<<112, 119>>, <<98, 97, 100>>}

\* the key material the files are encrypted with
OwnerPassphrases == {<<112, 119>>}

\* (time_cost, memory_cost, parallelism) given on the command line
KdfChoices ==
    { [time_cost |-> BE(1, 4), memory_cost_kib |-> BE(1024, 4), parallelism |-> BE(1, 4)],
      [time_cost |-> BE(1, 4), memory_cost_kib |-> BE(4096, 4), parallelism |-> BE(257, 4)],
      [time_cost |-> BE(0, 4), memory_cost_kib |-> BE(1024, 4), parallelism |-> BE(1, 4)] }

\* what the random number generator can return
Salts == {[i \in 1..SALT_LEN |-> 16 + i]}

Nonces == {[i \in 1..NONCE_LEN |-> 255 - i]}

\* outcomes of a system call: success, EACCES, any other error
IoOutcomes == {"ok", "denied", "other"}

(***************************************************************************)
(* State                                                                   *)
(***************************************************************************)
VARIABLES
    fs,        \* the file system: path -> [exists, data, mode]
    op,        \* the subcommand of the process: "none", "encrypt", "decrypt"
    pc,        \* the statement the process is at
    result,    \* "none" while it runs; then Ok, an error kind, or Killed
    opts,      \* EncryptOptions / DecryptOptions of the process
    m,         \* the local variables of encrypt / decrypt
    events,    \* the progress lines written to stdout by the process
    oracle,    \* the chunks sealed by AES-GCM so far
    pre,       \* the destination file as it was when the process started
    tamper,    \* what the adversary did to the container: [kind, at]
    fault,     \* whether a system call of the process has failed
    ioerr,     \* the system call that failed and how: [at, kind]
    encOpts,   \* the options the container was encrypted with
    exit,      \* how the process ended: [exited, code]
    stderr,    \* the error events written to stderr by the process
    call       \* a call of a pure function: [fn, arg, ret]

vars == <<fs, op, pc, result, opts, m, events, oracle, pre, tamper, fault, ioerr, encOpts,
          exit, stderr, call>>

NoOpts == [input_path |-> "input", output_path |-> "container", passphrase |-> <<>>,
           kdf |-> [time_cost |-> BE(0, 4), memory_cost_kib |-> BE(0, 4),
                    parallelism |-> BE(0, 4)],
           store_filename |-> FALSE]

NoHeader == [version |-> 0, kdf_id |-> 0, kdf_params |-> NoOpts.kdf, salt |-> <<>>,
             nonce |-> <<>>, filename |-> [some |-> FALSE, bytes |-> <<>>],
             mode |-> [some |-> FALSE, bits |-> BE(0, 4)],
             original_file_size |-> BE(0, 8), ciphertext_length |-> BE(0, 8)]

\* the locals before the first statement
M0 == [salt |-> <<>>, nonce_bytes |-> <<>>, key |-> <<>>, header |-> NoHeader,
       header_bytes |-> <<>>, aad |-> <<>>, total |-> 0, rpos |-> 0, wbuf |-> <<>>,
       chunk_index |-> BE(0, 4), bytes_done |-> 0, remaining |-> 0]

\* no system call has failed
NoIoErr == [at |-> "none", kind |-> "ok"]

\* the process has not ended
NotExited == [exited |-> FALSE, code |-> 0]

\* no pure function is being called
NoCall == [fn |-> "none"]

Running(o, at) == op = o /\ pc = at /\ result = "none"

\* a NamedTempFile is removed when it is dropped
DropTemp(files) == [files EXCEPT !["temp"] = NoFile]

\* a faulty TempPath: the output is written in place, at the destination
TempPathInPlace(output_path) == output_path

\* NamedTempFile::new_in(output_dir): a fresh name next to the destination
TempPath(output_path) == "temp"

\* an io::Error becomes Permission when its kind is PermissionDenied
IoErr(outcome) == IF outcome = "denied" THEN "Permission" ELSE "Internal"

\* return Err(kind) after the system call `at` ended with outcome: the locals
\* are dropped, the temp file with them
ReturnAt(kind, outcome, at) ==
    /\ result' = kind
    /\ fs' = DropTemp(fs)
    /\ fault' = (fault \/ outcome # "ok")
    /\ ioerr' = IF outcome # "ok" THEN [at |-> at, kind |-> outcome] ELSE ioerr
    /\ UNCHANGED <<op, pc, opts, m, oracle, pre, tamper, exit, stderr, call, encOpts>>

\* return Err(kind) from the statement the process is at
Return(kind, outcome) == ReturnAt(kind, outcome, pc)

Init ==
    /\ \E n \in 0..MaxLen, mode \in InputModes, old \in BOOLEAN :
          fs = [p \in Paths |->
                  IF p = "input"
                  THEN [exists |-> TRUE, data |-> Plaintext(n), mode |-> mode]
                  ELSE IF old /\ p \in {"container", "output"} THEN OldFile
                  ELSE NoFile]
    /\ op = "none"
    /\ pc = "idle"
    /\ result = "none"
    /\ opts = NoOpts
    /\ m = M0
    /\ events = <<>>
    /\ oracle = <<>>
    /\ pre = NoFile
    /\ tamper = [kind |-> "none", at |-> 0]
    /\ fault = FALSE
    /\ ioerr = NoIoErr
    /\ encOpts = NoOpts
    /\ exit = NotExited
    /\ stderr = <<>>
    /\ call = NoCall

(***************************************************************************)
(* encrypt (encrypt.rs)                                                    *)
(***************************************************************************)
\* main dispatches to encrypt; step 1 draws the salt and the base nonce
StartEncrypt(passphrase, kdf, store_filename, salt, nonce) ==
    /\ op = "none"
    /\ op' = "encrypt"
    /\ pc' = "e_kdf"
    /\ opts' = [input_path |-> "input", output_path |-> "container",
                passphrase |-> passphrase, kdf |-> kdf,
                store_filename |-> store_filename]
    /\ m' = [M0 EXCEPT !.salt = salt, !.nonce_bytes = nonce]
    /\ pre' = fs["container"]
    /\ encOpts' = opts'
    /\ UNCHANGED <<fs, result, events, oracle, tamper, exit, stderr, call, fault, ioerr>>

\* step 2: derive the key
EncKdf ==
    /\ Running("encrypt", "e_kdf")
    /\ LET k == derive_key(opts.passphrase, m.salt, opts.kdf)
           e == emit_progress(events, "kdf", 0, 0)
       IN  IF ~k.ok
           THEN /\ events' = e
                /\ Return("Internal", "ok")
           ELSE /\ events' = emit_progress(e, "kdf", 1, 1)
                /\ m' = [m EXCEPT !.key = k.key]
                /\ pc' = "e_stat"
                /\ UNCHANGED <<fs, op, result, opts, oracle, pre, tamper, exit, stderr, call, fault, ioerr, encOpts>>

\* input_size > (u32::MAX as u64) * (CHUNK_SIZE as u64)
InputTooLarge(input_size) ==
    BELt(BEMul(BECast(U32_MAX, 8), CHUNK_SIZE), input_size)

\* a faulty PermissionBits: the whole st_mode, file type bits included
PermissionBitsRaw(st_mode) == st_mode

\* input_metadata.permissions().mode() & 0o7777
PermissionBits(st_mode) == st_mode % 4096

\* steps 3 to 6: stat the input, build and encode the header
EncStat(outcome) ==
    /\ Running("encrypt", "e_stat")
    /\ IF outcome # "ok" THEN Return(IoErr(outcome), outcome) /\ UNCHANGED events
       ELSE
       LET input      == fs[opts.input_path]
           input_size == BE(Len(input.data), 8)
           header     ==
             [version    |-> VERSION,
              kdf_id     |-> KDF_ID_ARGON2ID,
              kdf_params |-> opts.kdf,
              salt       |-> m.salt,
              nonce      |-> m.nonce_bytes,
              filename   |-> IF opts.store_filename
                             THEN [some |-> TRUE, bytes |-> InputFileName]
                             ELSE [some |-> FALSE, bytes |-> <<>>],
              mode       |-> [some |-> TRUE, bits |-> BE(PermissionBits(input.mode), 4)],
              original_file_size |-> input_size,
              ciphertext_length  |-> input_size]
           header_bytes == encode_header(header)
       IN  IF InputTooLarge(input_size)
           THEN Return("Internal", "ok") /\ UNCHANGED events
           ELSE /\ m' = [m EXCEPT !.header = header,
                                  !.header_bytes = header_bytes,
                                  !.aad = extract_aad(header_bytes),
                                  !.total = Len(input.data)]
                /\ pc' = "e_open"
                /\ UNCHANGED <<fs, op, result, opts, events, oracle, pre, tamper, exit, stderr, call, fault, ioerr, encOpts>>

\* step 7: open the input
EncOpen(outcome) ==
    /\ Running("encrypt", "e_open")
    /\ IF outcome # "ok" THEN Return(IoErr(outcome), outcome)
       ELSE /\ m' = [m EXCEPT !.rpos = 0]
            /\ pc' = "e_temp"
            /\ UNCHANGED <<fs, op, result, opts, oracle, pre, tamper, exit, stderr, call, fault, ioerr, encOpts>>
    /\ UNCHANGED events

\* step 8: create the temp file in the destination directory
EncTemp(outcome) ==
    /\ Running("encrypt", "e_temp")
    /\ IF outcome # "ok" THEN Return(IoErr(outcome), outcome)
       ELSE /\ fs' = [fs EXCEPT ![TempPath(opts.output_path)] =
                          [exists |-> TRUE, data |-> <<>>, mode |-> 384]]
            /\ pc' = "e_chmod"
            /\ UNCHANGED <<op, result, opts, m, oracle, pre, tamper, exit, stderr, call, fault, ioerr, encOpts>>
    /\ UNCHANGED events

\* Permissions::from_mode(0o600)
TempMode == 384

\* a faulty SetPermissions: the file is left readable and writable by all
SetPermissionsOpen(file, mode) == [file EXCEPT !.mode = 438]

\* fs::set_permissions(path, perms)
SetPermissions(file, mode) == [file EXCEPT !.mode = mode]

\* set the temp file's mode to 0600
EncChmod(outcome) ==
    /\ Running("encrypt", "e_chmod")
    /\ IF outcome # "ok" THEN Return("Internal", outcome)
       ELSE /\ fs' = [fs EXCEPT ![TempPath(opts.output_path)] = SetPermissions(@, TempMode)]
            /\ pc' = "e_header"
            /\ UNCHANGED <<op, result, opts, m, oracle, pre, tamper, exit, stderr, call, fault, ioerr, encOpts>>
    /\ UNCHANGED events

\* step 9: write the header into the BufWriter
EncWriteHeader(outcome) ==
    /\ Running("encrypt", "e_header")
    /\ IF outcome # "ok" THEN Return("Internal", outcome) /\ UNCHANGED events
       ELSE /\ m' = [m EXCEPT !.wbuf = @ \o RawSeq(m.header_bytes),
                              !.chunk_index = BE(0, 4),
                              !.bytes_done = 0]
            /\ events' = emit_progress(events, "encrypt", 0, m.total)
            /\ pc' = "e_loop"
            /\ UNCHANGED <<fs, op, result, opts, oracle, pre, tamper, exit, stderr, call, fault, ioerr, encOpts>>

\* reader.read(buf) of a BufReader over a file: the bytes left, up to want
ReaderRead(data, pos, want) ==
    IF pos >= Len(data) THEN 0 ELSE Min(want, Len(data) - pos)

RECURSIVE ReadLoop(_, _, _, _)
ReadLoop(data, pos, want, total) ==
    IF total < want
    THEN LET n == ReaderRead(data, pos + total, want - total)
         IN  IF n = 0 THEN total ELSE ReadLoop(data, pos, want, total + n)
    ELSE total

\* a faulty read_exact_or_eof: the last byte of the buffer is never filled
ReadOneShort(data, pos, want) == ReadLoop(data, pos, want - 1, 0)

\* fill the buffer until it is full or the reader returns 0
read_exact_or_eof(data, pos, want) == ReadLoop(data, pos, want, 0)

\* a faulty Flush: the buffered bytes are lost
FlushNothing(file, wbuf) == file

\* BufWriter::flush: the buffered bytes reach the file
Flush(file, wbuf) == [file EXCEPT !.data = @ \o wbuf]

\* NamedTempFile::persist: rename the temp file over the destination
Persist(files, temp, dest) == [files EXCEPT ![dest] = files[temp], ![temp] = NoFile]

\* a faulty NextIndex: the counter is never advanced
NextIndexStuck(chunk_index) == chunk_index

\* chunk_index += 1, on a u32
NextIndex(chunk_index) == BEAdd(chunk_index, BE(1, 4))

\* step 10, one iteration that reads a chunk: seal it, write ciphertext and tag
EncChunk(outcome) ==
    /\ Running("encrypt", "e_loop")
    /\ LET input      == fs[opts.input_path].data
           bytes_read == read_exact_or_eof(input, m.rpos, CHUNK_SIZE)
           chunk_data == Slice(input, m.rpos, m.rpos + bytes_read)
           id         == Len(oracle) + 1
           nonce      == derive_chunk_nonce(m.nonce_bytes, m.chunk_index)
           chunk_aad  == build_chunk_aad(m.aad, m.chunk_index)
           ct         == SealCt(id, chunk_data)
       IN  /\ bytes_read > 0
           /\ IF outcome # "ok" THEN Return("Internal", outcome) /\ UNCHANGED events
              ELSE /\ oracle' = Append(oracle, [key |-> m.key, nonce |-> nonce,
                                                aad |-> chunk_aad, ct |-> ct])
                   /\ m' = [m EXCEPT !.wbuf = @ \o ct \o TagBytes(id),
                                     !.rpos = @ + bytes_read,
                                     !.bytes_done = @ + bytes_read,
                                     !.chunk_index = NextIndex(@)]
                   /\ events' = emit_progress(events, "encrypt",
                                              m.bytes_done + bytes_read, m.total)
                   /\ UNCHANGED <<fs, op, pc, result, opts, pre, tamper, exit, stderr, call, fault, ioerr, encOpts>>

\* the zero-byte read that ends the loop, then flush and drop the BufWriter
EncFlush(outcome) ==
    /\ Running("encrypt", "e_loop")
    /\ read_exact_or_eof(fs[opts.input_path].data, m.rpos, CHUNK_SIZE) = 0
    /\ IF outcome # "ok" THEN Return("Internal", outcome)
       ELSE /\ fs' = [fs EXCEPT ![TempPath(opts.output_path)] = Flush(@, m.wbuf)]
            /\ m' = [m EXCEPT !.wbuf = <<>>]
            /\ pc' = "e_persist"
            /\ UNCHANGED <<op, result, opts, oracle, pre, tamper, exit, stderr, call, fault, ioerr, encOpts>>
    /\ UNCHANGED events

\* step 11: rename the temp file to the output path, report 100%
EncPersist(outcome) ==
    /\ Running("encrypt", "e_persist")
    /\ IF outcome # "ok" THEN Return(IoErr(outcome), outcome) /\ UNCHANGED events
       ELSE /\ fs' = Persist(fs, TempPath(opts.output_path), opts.output_path)
            /\ events' = emit_progress(events, "encrypt", m.total, m.total)
            /\ result' = "Ok"
            /\ pc' = "done"
            /\ UNCHANGED <<op, opts, m, oracle, pre, tamper, exit, stderr, call, fault, ioerr, encOpts>>

(***************************************************************************)
(* The adversary edits the container written by a successful encrypt       *)
(***************************************************************************)
CanTamper == op = "encrypt" /\ result = "Ok" /\ tamper.kind = "none"

Container == fs["container"].data

\* kind names the edit, at its offset or count
Tampered(kind, at, data) ==
    /\ fs' = [fs EXCEPT !["container"].data = data]
    /\ tamper' = [kind |-> kind, at |-> at]
    /\ UNCHANGED <<op, pc, result, opts, m, events, oracle, pre, fault, ioerr, encOpts,
                    exit, stderr, call>>

\* the masks the adversary XORs into a byte
FlipMasks == {1}

\* a byte XOR mask; XOR on a ciphertext byte XORs the plaintext under it
FlipAtom(a, mask) ==
    IF "p" \in DOMAIN a
    THEN [a EXCEPT !.v = Xor(@, mask), !.p = Xor(@, mask)]
    ELSE [a EXCEPT !.v = Xor(@, mask)]

\* change one byte, at any offset
TamperFlip(off, mask) ==
    /\ CanTamper
    /\ off \in 1..Len(Container)
    /\ Tampered("flip", off, [Container EXCEPT ![off] = FlipAtom(@, mask)])

\* append k bytes
TamperAppend(k) ==
    /\ CanTamper
    /\ Tampered("append", k, Container \o RawSeq(Repeat(74, k)))

HeaderSizeOf(data) == read_header_from_reader(Vals(data)).consumed

\* remove the last k bytes, leaving the header whole
TamperTruncate(k) ==
    /\ CanTamper
    /\ k \in 1..(Len(Container) - HeaderSizeOf(Container))
    /\ Tampered("truncate", k, SubSeq(Container, 1, Len(Container) - k))

\* the c-th (ciphertext, tag) block after a header of hs bytes
Block(data, hs, c) ==
    Slice(data, hs + (c - 1) * (CHUNK_SIZE + TAG_LEN),
          Min(Len(data), hs + c * (CHUNK_SIZE + TAG_LEN)))

NumBlocks(data, hs) ==
    (Len(data) - hs + CHUNK_SIZE + TAG_LEN - 1) \div (CHUNK_SIZE + TAG_LEN)

RECURSIVE Cat(_)
Cat(seqs) == IF Len(seqs) = 0 THEN <<>> ELSE Head(seqs) \o Cat(Tail(seqs))

\* exchange the blocks i and j
TamperReorder(i, j) ==
    /\ CanTamper
    /\ LET hs == HeaderSizeOf(Container)
           nb == NumBlocks(Container, hs)
       IN  /\ i < j
           /\ j <= nb
           /\ Tampered("reorder", i,
                       SubSeq(Container, 1, hs)
                       \o Cat([c \in 1..nb |->
                                 Block(Container, hs,
                                       IF c = i THEN j ELSE IF c = j THEN i ELSE c)]))

\* remove the last k blocks and rewrite the length fields of the header
TamperCut(k) ==
    /\ CanTamper
    /\ LET hs   == HeaderSizeOf(Container)
           nb   == NumBlocks(Container, hs)
           h    == read_header_from_reader(Vals(Container)).header
           keep == BE((nb - k) * CHUNK_SIZE, 8)
       IN  /\ k \in 1..nb
           /\ Tampered("cut", k,
                       RawSeq(encode_header([h EXCEPT !.original_file_size = keep,
                                                      !.ciphertext_length = keep]))
                       \o Cat([c \in 1..(nb - k) |-> Block(Container, hs, c)]))

\* bytes the adversary writes into the header: (offset, value) for the
\* magic, the version, kdf_id, salt_len, nonce_len, filename_len and the
\* first byte after filename_len
HeaderEdits ==
    { <<0, 0>>, <<8, 3>>, <<9, 2>>, <<19, 17>>, <<36, 13>>, <<49, 255>>, <<51, 255>> }

\* overwrite one header byte
TamperHeader(off, value) ==
    /\ CanTamper
    /\ <<off, value>> \in HeaderEdits
    /\ Tampered("header", off, [Container EXCEPT ![off + 1] = Raw(value)])

\* write 2^64 - 1 into ciphertext_length, the last 8 bytes of the header
TamperLength ==
    /\ CanTamper
    /\ LET hs == HeaderSizeOf(Container)
       IN  Tampered("length", hs - 8,
                    SubSeq(Container, 1, hs - 8) \o RawSeq(Repeat(255, 8))
                    \o SubSeq(Container, hs + 1, Len(Container)))

\* cut the file inside the header: keep its first k bytes
TamperShorten(k) ==
    /\ CanTamper
    /\ k < HeaderSizeOf(Container)
    /\ Tampered("shorten", k, SubSeq(Container, 1, k))

\* rewrite the header as a version 1 header: version byte 1, no mode field
TamperDowngrade ==
    /\ CanTamper
    /\ LET hs == HeaderSizeOf(Container)
       IN  Tampered("downgrade", 8,
                    SubSeq(Container, 1, 8) \o <<Raw(1)>> \o SubSeq(Container, 10, hs - 20)
                    \o SubSeq(Container, hs - 15, Len(Container)))

\* the most chunks a plaintext of the model has
MaxChunks == (MaxLen + CHUNK_SIZE - 1) \div CHUNK_SIZE

\* the longest container of the model
MaxFileLen == 71 + Len(InputFileName) + MaxLen + MaxChunks * TAG_LEN

(***************************************************************************)
(* decrypt (decrypt.rs)                                                    *)
(***************************************************************************)
\* main dispatches to decrypt on the container, with a passphrase
StartDecrypt(passphrase) ==
    /\ op = "encrypt"
    /\ result = "Ok"
    /\ op' = "decrypt"
    /\ pc' = "d_validate"
    /\ result' = "none"
    /\ opts' = [NoOpts EXCEPT !.input_path = "container", !.output_path = "output",
                              !.passphrase = passphrase]
    /\ m' = M0
    /\ events' = <<>>
    /\ pre' = fs["output"]
    /\ fault' = FALSE
    /\ ioerr' = NoIoErr
    /\ exit' = NotExited
    /\ stderr' = <<>>
    /\ UNCHANGED <<fs, oracle, tamper, call, encOpts>>

\* a faulty SizeCheck: the chunk-count guard without the size equation
SizeCheckCountOnly(ciphertext_length, header_size, file_len, wraps) ==
    LET ciphertext_len == BECast(ciphertext_length, 8)
        num_chunks == IF BEIsZero(ciphertext_len) THEN BE(0, 8)
                      ELSE BEDiv(BEAdd(ciphertext_len, BE(CHUNK_SIZE - 1, 8)), CHUNK_SIZE)
    IN  IF BELt(BECast(U32_MAX, 8), num_chunks) THEN "CorruptFile" ELSE "ok"

\* a faulty SizeCheck: only a file longer than expected is rejected
SizeCheckAtMost(ciphertext_length, header_size, file_len, wraps) ==
    LET ciphertext_len == BECast(ciphertext_length, 8)
        num_chunks == IF BEIsZero(ciphertext_len) THEN BE(0, 8)
                      ELSE BEDiv(BEAdd(ciphertext_len, BE(CHUNK_SIZE - 1, 8)), CHUNK_SIZE)
        expected_total == BEAdd(BEAdd(BE(header_size, 8), ciphertext_len),
                                BEMul(num_chunks, TAG_LEN))
    IN  IF BELt(BECast(U32_MAX, 8), num_chunks) THEN "CorruptFile"
        ELSE IF BELt(expected_total, BE(file_len, 8)) THEN "CorruptFile"
        ELSE "ok"

\* a faulty SizeCheck: a size mismatch is reported as an authentication failure
SizeCheckAsAuth(ciphertext_length, header_size, file_len, wraps) ==
    LET ciphertext_len == BECast(ciphertext_length, 8)
        num_chunks == IF BEIsZero(ciphertext_len) THEN BE(0, 8)
                      ELSE BEDiv(BEAdd(ciphertext_len, BE(CHUNK_SIZE - 1, 8)), CHUNK_SIZE)
        expected_total == BEAdd(BEAdd(BE(header_size, 8), ciphertext_len),
                                BEMul(num_chunks, TAG_LEN))
    IN  IF BELt(BECast(U32_MAX, 8), num_chunks) THEN "CorruptFile"
        ELSE IF BE(file_len, 8) # expected_total THEN "WrongPassphrase"
        ELSE "ok"

\* step 3, first half: the number of chunks, in usize (8 digits), and the
\* guard on it.  The addition that overflows panics in a build with overflow
\* checks and wraps in a build without.
ChunkCountGuard(ciphertext_length, wraps) ==
    LET ciphertext_len == BECast(ciphertext_length, 8)
        round       == BE(CHUNK_SIZE - 1, 8)
        num_chunks  == IF BEIsZero(ciphertext_len) THEN BE(0, 8)
                       ELSE BEDiv(BEAdd(ciphertext_len, round), CHUNK_SIZE)
    IN  IF ~BEIsZero(ciphertext_len) /\ BEAddOverflows(ciphertext_len, round) /\ ~wraps
        THEN "Panic"
        ELSE IF BELt(BECast(U32_MAX, 8), num_chunks) THEN "CorruptFile"
        ELSE "ok"

\* step 3: the chunk-count guard and the whole-file size equation, in usize
\* (8 digits).  An addition that overflows panics in a build with overflow
\* checks and wraps in a build without.
SizeCheck(ciphertext_length, header_size, file_len, wraps) ==
    LET ciphertext_len == BECast(ciphertext_length, 8)
        round       == BE(CHUNK_SIZE - 1, 8)
        num_chunks  == IF BEIsZero(ciphertext_len) THEN BE(0, 8)
                       ELSE BEDiv(BEAdd(ciphertext_len, round), CHUNK_SIZE)
        total_tags_size == BEMul(num_chunks, TAG_LEN)
        file_size   == BE(file_len, 8)
        head_ct     == BEAdd(BE(header_size, 8), ciphertext_len)
        expected_total == BEAdd(head_ct, total_tags_size)
        overflow    == \/ BEAddOverflows(BE(header_size, 8), ciphertext_len)
                       \/ BEAddOverflows(head_ct, total_tags_size)
        guard       == ChunkCountGuard(ciphertext_length, wraps)
    IN  IF guard # "ok" THEN guard
        ELSE IF overflow /\ ~wraps THEN "Panic"
        ELSE IF file_size # expected_total THEN "CorruptFile"
        ELSE "ok"

\* a faulty MapHeaderError: a filename that is not UTF-8 is an internal error
MapHeaderErrorFilename(e) ==
    IF e = "Panic" THEN "Panic"
    ELSE IF e = "InvalidFilename" THEN "Internal"
    ELSE "CorruptFile"

\* step 2, the map_err on read_header_from_reader: every HeaderError becomes
\* CorruptFile (a panic is not an error value and unwinds)
MapHeaderError(e) == IF e = "Panic" THEN "Panic" ELSE "CorruptFile"

\* steps 1 to 3: open the input, parse the header, check the sizes
DecValidate(outcome) ==
    /\ Running("decrypt", "d_validate")
    /\ UNCHANGED events
    /\ IF outcome # "ok" THEN Return(IoErr(outcome), outcome)
       ELSE
       \E data \in {fs[opts.input_path].data} :
       \E h \in {read_header_from_reader(Vals(data))} :
           IF h.err # "none"
           THEN Return(MapHeaderError(h.err), "ok")
           ELSE
           \E verdict \in { SizeCheck(h.header.ciphertext_length, h.consumed,
                                      Len(data), w) : w \in BOOLEAN } :
              IF verdict # "ok" THEN Return(verdict, "ok")
              ELSE /\ m' = [m EXCEPT !.header = h.header,
                                     !.header_bytes = h.header_bytes,
                                     !.aad = Slice(h.header_bytes, 0, AAD_LENGTH),
                                     !.total = BEVal(h.header.ciphertext_length),
                                     !.rpos = h.consumed]
                   /\ pc' = "d_kdf"
                   /\ UNCHANGED <<fs, op, result, opts, oracle, pre, tamper, exit, stderr, call, fault, ioerr, encOpts>>

\* a read of the header fails with an I/O error: read_header_from_reader
\* turns every error of read_exact into TooShort
DecHeaderReadFails(outcome) ==
    /\ Running("decrypt", "d_validate")
    /\ ReturnAt(MapHeaderError("TooShort"), outcome, "read_header")
    /\ UNCHANGED events

\* fs::metadata of the input fails: Internal, whatever the kind of the error
DecStatFails(outcome) ==
    /\ Running("decrypt", "d_validate")
    /\ read_header_from_reader(Vals(fs[opts.input_path].data)).err = "none"
    /\ ReturnAt("Internal", outcome, "stat")
    /\ UNCHANGED events

\* steps 4 to 6: derive the key with the header's parameters
DecKdf ==
    /\ Running("decrypt", "d_kdf")
    /\ LET k == derive_key(opts.passphrase, m.header.salt, m.header.kdf_params)
           e == emit_progress(events, "kdf", 0, 0)
       IN  IF ~k.ok
           THEN /\ events' = e
                /\ Return("Internal", "ok")
           ELSE /\ events' = emit_progress(e, "kdf", 1, 1)
                /\ m' = [m EXCEPT !.key = k.key]
                /\ pc' = "d_temp"
                /\ UNCHANGED <<fs, op, result, opts, oracle, pre, tamper, exit, stderr, call, fault, ioerr, encOpts>>

\* step 7: create the temp file in the destination directory
DecTemp(outcome) ==
    /\ Running("decrypt", "d_temp")
    /\ IF outcome # "ok" THEN Return(IoErr(outcome), outcome) /\ UNCHANGED events
       ELSE /\ fs' = [fs EXCEPT ![TempPath(opts.output_path)] =
                          [exists |-> TRUE, data |-> <<>>, mode |-> 384]]
            /\ events' = emit_progress(events, "decrypt", 0, m.total)
            /\ m' = [m EXCEPT !.remaining = m.total, !.chunk_index = BE(0, 4),
                              !.bytes_done = 0]
            /\ pc' = "d_loop"
            /\ UNCHANGED <<op, result, opts, oracle, pre, tamper, exit, stderr, call, fault, ioerr, encOpts>>

\* step 8, one iteration: read ciphertext and tag, authenticate, write plaintext
DecChunk(outcome) ==
    /\ Running("decrypt", "d_loop")
    /\ m.remaining > 0
    /\ LET data      == fs[opts.input_path].data
           this_chunk_ct_len == Min(m.remaining, CHUNK_SIZE)
           read_len  == this_chunk_ct_len + TAG_LEN
           ct_slice  == Slice(data, m.rpos, m.rpos + this_chunk_ct_len)
           tag_slice == Slice(data, m.rpos + this_chunk_ct_len, m.rpos + read_len)
           nonce     == derive_chunk_nonce(m.header.nonce, m.chunk_index)
           chunk_aad == build_chunk_aad(m.aad, m.chunk_index)
       IN  IF outcome # "ok" THEN Return("Internal", outcome) /\ UNCHANGED events
           ELSE IF Len(data) - m.rpos < read_len
           THEN Return("CorruptFile", "ok") /\ UNCHANGED events
           ELSE IF ~TagOk(oracle, m.key, nonce, chunk_aad, ct_slice, tag_slice)
           THEN Return("WrongPassphrase", "ok") /\ UNCHANGED events
           ELSE /\ m' = [m EXCEPT !.wbuf = @ \o OpenCt(oracle, m.key, nonce, ct_slice),
                                  !.rpos = @ + read_len,
                                  !.remaining = @ - this_chunk_ct_len,
                                  !.bytes_done = @ + this_chunk_ct_len,
                                  !.chunk_index = NextIndex(@)]
                /\ events' = emit_progress(events, "decrypt",
                                           m.bytes_done + this_chunk_ct_len, m.total)
                /\ UNCHANGED <<fs, op, pc, result, opts, oracle, pre, tamper, exit, stderr, call, fault, ioerr, encOpts>>

\* the loop ends; flush and drop the BufWriter
DecFlush(outcome) ==
    /\ Running("decrypt", "d_loop")
    /\ m.remaining = 0
    /\ IF outcome # "ok" THEN Return("Internal", outcome)
       ELSE /\ fs' = [fs EXCEPT ![TempPath(opts.output_path)] = Flush(@, m.wbuf)]
            /\ m' = [m EXCEPT !.wbuf = <<>>]
            /\ pc' = "d_persist"
            /\ UNCHANGED <<op, result, opts, oracle, pre, tamper, exit, stderr, call, fault, ioerr, encOpts>>
    /\ UNCHANGED events

\* step 9: rename the temp file to the output path
DecPersist(outcome) ==
    /\ Running("decrypt", "d_persist")
    /\ IF outcome # "ok" THEN Return(IoErr(outcome), outcome)
       ELSE /\ fs' = Persist(fs, TempPath(opts.output_path), opts.output_path)
            /\ pc' = "d_chmod"
            /\ UNCHANGED <<op, result, opts, m, oracle, pre, tamper, exit, stderr, call, fault, ioerr, encOpts>>
    /\ UNCHANGED events

\* mode & 0o7777 of a u32
ModeBits(bits) == (bits[3] * 256 + bits[4]) % 4096

\* restore the POSIX mode when the header has one, report 100%
DecChmod(outcome) ==
    /\ Running("decrypt", "d_chmod")
    /\ LET restore == m.header.mode.some /\ ~BEIsZero(m.header.mode.bits)
       IN  IF restore /\ outcome # "ok"
           THEN Return(IoErr(outcome), outcome) /\ UNCHANGED events
           ELSE /\ outcome = "ok"
                /\ fs' = IF restore
                         THEN [fs EXCEPT ![opts.output_path].mode =
                                             ModeBits(m.header.mode.bits)]
                         ELSE fs
                /\ events' = emit_progress(events, "decrypt", m.total, m.total)
                /\ result' = "Ok"
                /\ pc' = "done"
                /\ UNCHANGED <<op, opts, m, oracle, pre, tamper, exit, stderr, call, fault, ioerr, encOpts>>

(***************************************************************************)
(* main (main.rs): key material, dispatch, exit code                       *)
(***************************************************************************)
\* main's match on the result of encrypt: [code, error]
EncryptExit(kind) ==
    CASE kind = "Ok"         -> [code |-> 0,  error |-> "none"]
      [] kind = "Permission" -> [code |-> 3,  error |-> "permission_error"]
      [] kind = "Internal"   -> [code |-> 10, error |-> "internal_error"]
      \* a panic unwinds through main: exit status 101, no error event
      [] OTHER               -> [code |-> 101, error |-> "none"]

\* a faulty DecryptExit: every error is reported as an internal error
DecryptExitGeneric(kind) ==
    CASE kind = "Ok"    -> [code |-> 0,  error |-> "none"]
      [] kind = "Panic" -> [code |-> 101, error |-> "none"]
      [] OTHER          -> [code |-> 10, error |-> "internal_error"]

\* main's match on the result of decrypt: [code, error]
DecryptExit(kind) ==
    CASE kind = "Ok"              -> [code |-> 0,  error |-> "none"]
      [] kind = "WrongPassphrase" -> [code |-> 1,  error |-> "wrong_passphrase"]
      [] kind = "CorruptFile"     -> [code |-> 2,  error |-> "corrupt_file"]
      [] kind = "Permission"      -> [code |-> 3,  error |-> "permission_error"]
      [] kind = "Internal"        -> [code |-> 10, error |-> "internal_error"]
      \* a panic unwinds through main: exit status 101, no error event
      [] OTHER                    -> [code |-> 101, error |-> "none"]

\* encrypt or decrypt has returned (or panicked): main ends the process
MainExit ==
    /\ op # "none"
    /\ result \notin {"none", "Killed"}
    /\ ~exit.exited
    /\ LET e == IF op = "encrypt" THEN EncryptExit(result) ELSE DecryptExit(result)
           x == emit_error_and_exit(stderr, e.error, e.code)
       IN  IF e.error = "none"
           THEN /\ exit' = [exited |-> TRUE, code |-> e.code]
                /\ UNCHANGED stderr
           ELSE /\ exit' = x.exit
                /\ stderr' = x.stderr
    /\ UNCHANGED <<fs, op, pc, result, opts, m, events, oracle, pre, tamper, fault, ioerr,
                    encOpts, call>>

\* the commands of the CLI
Commands == {"encrypt", "decrypt"}

\* read_passphrase or build_key_material fails (empty line, unreadable
\* keyfile): main exits before the command does any work
MainNoKey(cmd) ==
    /\ IF cmd = "encrypt" THEN op = "none" ELSE op = "encrypt" /\ result = "Ok"
    /\ op' = cmd
    /\ pc' = "m_key"
    /\ result' = "none"
    /\ opts' = IF cmd = "encrypt" THEN NoOpts
               ELSE [NoOpts EXCEPT !.input_path = "container", !.output_path = "output"]
    /\ m' = M0
    /\ events' = <<>>
    /\ pre' = fs[opts'.output_path]
    /\ fault' = FALSE
    /\ ioerr' = NoIoErr
    /\ LET x == emit_error_and_exit(<<>>, "internal_error", 10)
       IN  exit' = x.exit /\ stderr' = x.stderr
    /\ UNCHANGED <<fs, oracle, tamper, encOpts, call>>

(***************************************************************************)
(* The process is killed (SIGKILL): nothing is cleaned up                  *)
(***************************************************************************)
Kill ==
    /\ op # "none"
    /\ result = "none"
    /\ ~exit.exited
    /\ result' = "Killed"
    /\ UNCHANGED <<fs, op, pc, opts, m, events, oracle, pre, tamper, exit, stderr, call, fault, ioerr, encOpts>>

Next ==
    \/ \E pw \in OwnerPassphrases, kdf \in KdfChoices, sf \in BOOLEAN,
          salt \in Salts, nonce \in Nonces : StartEncrypt(pw, kdf, sf, salt, nonce)
    \/ EncKdf
    \/ \E o \in IoOutcomes : EncStat(o)
    \/ \E o \in IoOutcomes : EncOpen(o)
    \/ \E o \in IoOutcomes : EncTemp(o)
    \/ \E o \in {"ok", "other"} : EncChmod(o)
    \/ \E o \in {"ok", "other"} : EncWriteHeader(o)
    \/ \E o \in {"ok", "other"} : EncChunk(o)
    \/ \E o \in {"ok", "other"} : EncFlush(o)
    \/ \E o \in IoOutcomes : EncPersist(o)
    \/ \E off \in 1..MaxFileLen, mask \in FlipMasks : TamperFlip(off, mask)
    \/ \E k \in 1..MaxSuffix : TamperAppend(k)
    \/ \E k \in 1..MaxFileLen : TamperTruncate(k)
    \/ \E i, j \in 1..MaxChunks : TamperReorder(i, j)
    \/ \E k \in 1..MaxChunks : TamperCut(k)
    \/ \E e \in HeaderEdits : TamperHeader(e[1], e[2])
    \/ TamperLength
    \/ \E k \in {0, 66, 67, 70} : TamperShorten(k)
    \/ TamperDowngrade
    \/ \E pw \in Passphrases : StartDecrypt(pw)
    \/ \E o \in IoOutcomes : DecValidate(o)
    \/ \E o \in {"denied", "other"} : DecHeaderReadFails(o)
    \/ \E o \in {"denied", "other"} : DecStatFails(o)
    \/ DecKdf
    \/ \E o \in IoOutcomes : DecTemp(o)
    \/ \E o \in {"ok", "other"} : DecChunk(o)
    \/ \E o \in {"ok", "other"} : DecFlush(o)
    \/ \E o \in IoOutcomes : DecPersist(o)
    \/ \E o \in IoOutcomes : DecChmod(o)
    \/ MainExit
    \/ \E cmd \in Commands : MainNoKey(cmd)
    \/ Kill

Spec == Init /\ [][Next]_vars

(***************************************************************************)
(* encrypt while another process changes the length of the input file      *)
(***************************************************************************)
\* the statements of encrypt after the stat of the input, up to the end of
\* the read loop
AfterStat == {"e_open", "e_temp", "e_chmod", "e_header", "e_loop"}

\* another process appends a byte to the input file (grow) or removes its
\* last byte, once
InputResized(grow) ==
    /\ op = "encrypt" /\ result = "none" /\ pc \in AfterStat
    /\ tamper.kind = "none"
    /\ LET data == fs["input"].data
       IN  /\ grow \/ Len(data) > 0
           /\ fs' = [fs EXCEPT !["input"].data =
                         IF grow THEN Append(data, Raw(90)) ELSE Front(data)]
           /\ tamper' = [kind |-> "resize", at |-> Len(fs'["input"].data)]
    /\ UNCHANGED <<op, pc, result, opts, m, events, oracle, pre, fault, ioerr, encOpts,
                    exit, stderr, call>>

RaceNext ==
    \/ \E pw \in OwnerPassphrases, kdf \in KdfChoices, sf \in BOOLEAN,
          salt \in Salts, nonce \in Nonces : StartEncrypt(pw, kdf, sf, salt, nonce)
    \/ EncKdf
    \/ \E o \in IoOutcomes : EncStat(o)
    \/ \E o \in IoOutcomes : EncOpen(o)
    \/ \E o \in IoOutcomes : EncTemp(o)
    \/ \E o \in {"ok", "other"} : EncChmod(o)
    \/ \E o \in {"ok", "other"} : EncWriteHeader(o)
    \/ \E o \in {"ok", "other"} : EncChunk(o)
    \/ \E o \in {"ok", "other"} : EncFlush(o)
    \/ \E o \in IoOutcomes : EncPersist(o)
    \/ \E grow \in BOOLEAN : InputResized(grow)

RaceSpec == Init /\ [][RaceNext]_vars

(***************************************************************************)
(* Runs in which the process is not killed and keeps taking steps          *)
(***************************************************************************)
\* a statement of encrypt or of decrypt is executed
ProcessStep ==
    \/ EncKdf
    \/ \E o \in IoOutcomes : EncStat(o) \/ EncOpen(o) \/ EncTemp(o) \/ EncPersist(o)
    \/ \E o \in {"ok", "other"} :
          EncChmod(o) \/ EncWriteHeader(o) \/ EncChunk(o) \/ EncFlush(o)
    \/ \E o \in IoOutcomes : DecValidate(o) \/ DecTemp(o) \/ DecPersist(o) \/ DecChmod(o)
    \/ \E o \in {"denied", "other"} : DecHeaderReadFails(o) \/ DecStatFails(o)
    \/ DecKdf
    \/ \E o \in {"ok", "other"} : DecChunk(o) \/ DecFlush(o)

LiveNext ==
    \/ \E pw \in OwnerPassphrases, kdf \in KdfChoices, sf \in BOOLEAN,
          salt \in Salts, nonce \in Nonces : StartEncrypt(pw, kdf, sf, salt, nonce)
    \/ EncKdf
    \/ \E o \in IoOutcomes : EncStat(o)
    \/ \E o \in IoOutcomes : EncOpen(o)
    \/ \E o \in IoOutcomes : EncTemp(o)
    \/ \E o \in {"ok", "other"} : EncChmod(o)
    \/ \E o \in {"ok", "other"} : EncWriteHeader(o)
    \/ \E o \in {"ok", "other"} : EncChunk(o)
    \/ \E o \in {"ok", "other"} : EncFlush(o)
    \/ \E o \in IoOutcomes : EncPersist(o)
    \/ \E k \in 1..MaxChunks : TamperCut(k)
    \/ TamperLength
    \/ \E pw \in Passphrases : StartDecrypt(pw)
    \/ \E o \in IoOutcomes : DecValidate(o)
    \/ \E o \in {"denied", "other"} : DecHeaderReadFails(o)
    \/ \E o \in {"denied", "other"} : DecStatFails(o)
    \/ DecKdf
    \/ \E o \in IoOutcomes : DecTemp(o)
    \/ \E o \in {"ok", "other"} : DecChunk(o)
    \/ \E o \in {"ok", "other"} : DecFlush(o)
    \/ \E o \in IoOutcomes : DecPersist(o)
    \/ \E o \in IoOutcomes : DecChmod(o)

\* a read that returns Interrupted is retried and changes nothing: it is a
\* stuttering step.  Weak fairness of ProcessStep says that the process is
\* scheduled and that the reader does not return Interrupted forever.
LiveSpec == Init /\ [][LiveNext]_vars /\ WF_vars(ProcessStep)

(***************************************************************************)
(* Calls of the pure functions of header.rs and of the size guard of       *)
(* encrypt, on inputs that no file of the model above produces             *)
(***************************************************************************)
Absent == [some |-> FALSE, bytes |-> <<>>]

NoMode == [some |-> FALSE, bits |-> BE(0, 4)]

\* headers held in memory: both versions, parallelism within and beyond a
\* byte, filename absent, empty and multi-byte, mode absent and present
CodecHeaders ==
    { [version    |-> v,
       kdf_id     |-> KDF_ID_ARGON2ID,
       kdf_params |-> [time_cost |-> BE(3, 4), memory_cost_kib |-> BE(65536, 4),
                       parallelism |-> p],
       salt       |-> salt,
       nonce      |-> nonce,
       filename   |-> f,
       mode       |-> md,
       original_file_size |-> sz,
       ciphertext_length  |-> sz] :
      v \in {1, 2}, p \in {BE(4, 4), BE(257, 4)}, salt \in Salts, nonce \in Nonces,
      f \in {Absent, [some |-> TRUE, bytes |-> <<>>],
             [some |-> TRUE, bytes |-> InputFileName]},
      md \in {NoMode, [some |-> TRUE, bits |-> BE(416, 4)]},
      sz \in {BE(0, 8), <<1, 2, 3, 4, 5, 6, 7, 8>>} }

CodecCalls == { [fn |-> "codec", arg |-> h, done |-> FALSE, ret |-> <<>>] : h \in CodecHeaders }

\* base nonces: the one drawn above, all zero bits, all one bits
NonceBases == Nonces \cup {Repeat(0, NONCE_LEN), Repeat(255, NONCE_LEN)}

\* chunk indices as u32, one or two bits set in each byte, and the largest
ChunkIndices ==
    { BE(0, 4), BE(1, 4), <<0, 0, 1, 0>>, <<0, 0, 1, 1>>, <<0, 1, 0, 0>>,
      <<1, 0, 0, 0>>, <<128, 0, 0, 1>>, U32_MAX }

NonceCalls ==
    { [fn |-> "nonce", arg |-> [base |-> b, i |-> i, j |-> j], done |-> FALSE, ret |-> <<>>] :
      b \in NonceBases, i \in ChunkIndices, j \in ChunkIndices }

\* 2^32 as a u64
Pow32 == <<0, 0, 0, 1, 0, 0, 0, 0>>

\* input sizes as u64: small ones, the largest u64, and the sizes one below,
\* at and one above (2^32 - 1) * CHUNK_SIZE and 2^32 * CHUNK_SIZE
InputSizes ==
    { BE(0, 8), BE(MaxLen, 8), Repeat(255, 8),
      BEAdd(BEMul(<<0, 0, 0, 0, 255, 255, 255, 254>>, CHUNK_SIZE), BE(CHUNK_SIZE - 1, 8)),
      BEMul(BECast(U32_MAX, 8), CHUNK_SIZE),
      BEAdd(BEMul(BECast(U32_MAX, 8), CHUNK_SIZE), BE(1, 8)),
      BEAdd(BEMul(BECast(U32_MAX, 8), CHUNK_SIZE), BE(CHUNK_SIZE - 1, 8)),
      BEMul(Pow32, CHUNK_SIZE),
      BEAdd(BEMul(Pow32, CHUNK_SIZE), BE(1, 8)) }

GuardCalls == { [fn |-> "guard", arg |-> [input_size |-> sz], done |-> FALSE, ret |-> <<>>] : sz \in InputSizes }

\* ciphertext_length fields of a header: the input sizes above
CountCalls ==
    { [fn |-> "count", arg |-> [ciphertext_length |-> len, wraps |-> w],
       done |-> FALSE, ret |-> <<>>] : len \in InputSizes, w \in BOOLEAN }

\* header sizes read_header_from_reader reports: the authenticated fields, the
\* length and the up to MaxSuffix bytes of the file name, and the 16 (version
\* 1) or 20 (version 2) bytes after it
HeaderSizes == { AAD_LENGTH + 2 + n + t : n \in 0..MaxSuffix, t \in {16, 20} }

\* one of the three usize additions of step 3 leaves the range of usize
SizeOverflows(ciphertext_length, header_size) ==
    LET ciphertext_len == BECast(ciphertext_length, 8)
        round       == BE(CHUNK_SIZE - 1, 8)
        num_chunks  == IF BEIsZero(ciphertext_len) THEN BE(0, 8)
                       ELSE BEDiv(BEAdd(ciphertext_len, round), CHUNK_SIZE)
        total_tags_size == BEMul(num_chunks, TAG_LEN)
        head_ct     == BEAdd(BE(header_size, 8), ciphertext_len)
    IN  \/ ~BEIsZero(ciphertext_len) /\ BEAddOverflows(ciphertext_len, round)
        \/ BEAddOverflows(BE(header_size, 8), ciphertext_len)
        \/ BEAddOverflows(head_ct, total_tags_size)

\* step 3 of decrypt on a parsed header of header_size bytes with the field
\* ciphertext_length, in a file of header_size + rest bytes
SizeCalls ==
    { [fn |-> "size",
       arg |-> [ciphertext_length |-> len, header_size |-> hs, file_len |-> hs + rest,
                wraps |-> w],
       done |-> FALSE, ret |-> <<>>] :
      len \in InputSizes, hs \in HeaderSizes, w \in BOOLEAN,
      rest \in {0, 1, MaxLen + TAG_LEN * ((MaxLen + CHUNK_SIZE - 1) \div CHUNK_SIZE)} }

\* what one reader.read(buf) call returns: Ok(n) with up to n bytes (a short
\* read when n is less than the room in buf), Err(Interrupted), or another Err
ReaderResponses ==
    { [k |-> "intr", n |-> 0], [k |-> "err", n |-> 0] }
    \cup { [k |-> "data", n |-> n] : n \in 1..CHUNK_SIZE }

\* the most read calls whose outcome is chosen freely
ScriptLen == 4

\* what the reader returns call after call; once the script is used up every
\* read returns as much as is asked for
Scripts == UNION { [1..l -> ReaderResponses] : l \in 0..ScriptLen }

\* the outcome of read_exact_or_eof: bytes read, bytes left in the input, the
\* script left, the responses the reader gave, whether it ended on an error
ReadResult(total, left, script, trace, err) ==
    [total |-> total, left |-> left, script |-> script, trace |-> trace, err |-> err]

RECURSIVE ReadFill(_, _, _, _, _)
\* the while loop of read_exact_or_eof over a reader with `left` bytes to give
ReadFill(left, want, script, total, trace) ==
    IF total >= want THEN ReadResult(total, left, script, trace, FALSE)
    ELSE
    LET r    == IF script = <<>> THEN [k |-> "data", n |-> want] ELSE Head(script)
        rest == IF script = <<>> THEN <<>> ELSE Tail(script)
        n    == Min(Min(r.n, want - total), left)
    IN  IF r.k = "intr" THEN ReadFill(left, want, rest, total, Append(trace, r))
        ELSE IF r.k = "err" THEN ReadResult(total, left, rest, Append(trace, r), TRUE)
        ELSE IF n = 0
             THEN ReadResult(total, left, rest, Append(trace, [k |-> "data", n |-> 0]), FALSE)
        ELSE ReadFill(left - n, want, rest, total + n,
                      Append(trace, [k |-> "data", n |-> n]))

\* a faulty ReadExactOrEof: only the first byte of the buffer is filled
ReadOnce(left, want, script, trace) == ReadFill(left, Min(want, 1), script, 0, trace)

\* read_exact_or_eof(&mut reader, &mut chunk_buf) over a scripted reader
ReadExactOrEof(left, want, script, trace) == ReadFill(left, want, script, 0, trace)

RECURSIVE EncLoop(_, _, _, _)
\* the chunk loop of encrypt over a scripted reader: the lengths of the chunks
\* it seals, or Internal
EncLoop(left, script, chunks, trace) ==
    LET r == ReadExactOrEof(left, CHUNK_SIZE, script, trace)
    IN  IF r.err THEN [status |-> "Internal", chunks |-> chunks, trace |-> r.trace]
        ELSE IF r.total = 0 THEN [status |-> "ok", chunks |-> chunks, trace |-> r.trace]
        ELSE EncLoop(r.left, r.script, Append(chunks, r.total), r.trace)

ReadCalls ==
    { [fn |-> "read", arg |-> [len |-> n, script |-> sc], done |-> FALSE, ret |-> <<>>] :
      n \in 0..(MaxLen + 1), sc \in Scripts }

\* the calls to make
FnCalls ==
    CodecCalls \cup NonceCalls \cup GuardCalls \cup CountCalls \cup SizeCalls \cup ReadCalls

FnInit ==
    /\ fs = [p \in Paths |-> NoFile]
    /\ op = "none"
    /\ pc = "idle"
    /\ result = "none"
    /\ opts = NoOpts
    /\ m = M0
    /\ events = <<>>
    /\ oracle = <<>>
    /\ pre = NoFile
    /\ tamper = [kind |-> "none", at |-> 0]
    /\ fault = FALSE
    /\ ioerr = NoIoErr
    /\ encOpts = NoOpts
    /\ exit = NotExited
    /\ stderr = <<>>
    /\ call \in FnCalls

\* a pending call of fn is made and returns ret
Applied(fn, ret) ==
    /\ call.fn = fn
    /\ ~call.done
    /\ call' = [call EXCEPT !.done = TRUE, !.ret = ret]
    /\ UNCHANGED <<fs, op, pc, result, opts, m, events, oracle, pre, tamper, fault, ioerr,
                    encOpts, exit, stderr>>

\* decode_header(&encode_header(&header))
ApplyCodec ==
    LET bytes == encode_header(call.arg)
    IN  Applied("codec", [bytes |-> bytes, decoded |-> decode_header(bytes)])

\* derive_chunk_nonce(&base, i) and derive_chunk_nonce(&base, j)
ApplyNonce ==
    Applied("nonce", [ni |-> derive_chunk_nonce(call.arg.base, call.arg.i),
                      nj |-> derive_chunk_nonce(call.arg.base, call.arg.j)])

\* the size guard of encrypt on an input of input_size bytes: Err(Internal) or
\* the run goes on
ApplyGuard ==
    Applied("guard", IF InputTooLarge(call.arg.input_size) THEN "Internal" ELSE "accepted")

\* the chunk-count guard of decrypt on a header's ciphertext_length
ApplyCount ==
    Applied("count", ChunkCountGuard(call.arg.ciphertext_length, call.arg.wraps))

\* encrypt's chunk loop on an input of call.arg.len bytes behind a reader that
\* answers as call.arg.script says
ApplyRead ==
    Applied("read", EncLoop(call.arg.len, call.arg.script, <<>>, <<>>))

\* the size check of decrypt, and whether its arithmetic left the range
ApplySize ==
    Applied("size",
            [verdict  |-> SizeCheck(call.arg.ciphertext_length, call.arg.header_size,
                                    call.arg.file_len, call.arg.wraps),
             overflow |-> SizeOverflows(call.arg.ciphertext_length, call.arg.header_size)])

FnNext ==
    \/ ApplySize
    \/ ApplyCodec
    \/ ApplyNonce
    \/ ApplyGuard
    \/ ApplyCount
    \/ ApplyRead

FnSpec == FnInit /\ [][FnNext]_vars

(***************************************************************************)
(* Properties                                                              *)
(***************************************************************************)
\* the operation o has returned to main
Returned(o) == op = o /\ result \notin {"none", "Killed"}

\* the error kinds decrypt returns
DecryptErrors == {"WrongPassphrase", "CorruptFile", "Permission", "Internal"}

\* the plaintext that was encrypted
InputPlaintext == fs["input"].data

\* decrypt is given the key material the container was encrypted with
SameKey == opts.passphrase = encOpts.passphrase

\* decrypt has returned from a run in which every system call succeeded
DecryptDone(kind) ==
    Returned("decrypt") /\ tamper.kind = kind /\ ~fault

CeilDiv(n, d) == (n + d - 1) \div d

\* the chunk sequence of a plaintext: ciphertext and tag of each chunk in turn
ChunksOf(plain) ==
    Cat([c \in 1..CeilDiv(Len(plain), CHUNK_SIZE) |->
           SealCt(c, Slice(plain, (c - 1) * CHUNK_SIZE, Min(Len(plain), c * CHUNK_SIZE)))
           \o TagBytes(c)])

\* the file holds a whole container of the plaintext: a header that parses,
\* with the lengths of the plaintext, followed by every chunk and tag
CompleteContainer(file) ==
    /\ file.exists
    /\ LET h == read_header_from_reader(Vals(file.data))
       IN  /\ h.err = "none"
           /\ h.header.original_file_size = BE(Len(InputPlaintext), 8)
           /\ h.header.ciphertext_length = BE(Len(InputPlaintext), 8)
           /\ h.header.filename.some = opts.store_filename
           /\ SubSeq(file.data, h.consumed + 1, Len(file.data)) = ChunksOf(InputPlaintext)

\* C1: round trip.  Whenever encrypt succeeded (so the KDF accepted the
\* parameters) and decrypt of the unmodified container with the same key
\* material returns, it returns Ok and the destination holds the plaintext.
C1_RoundTrip ==
    (DecryptDone("none") /\ SameKey) =>
        /\ result = "Ok"
        /\ fs["output"].exists
        /\ fs["output"].data = InputPlaintext

\* the round trip of a parallelism above 255 ends in WrongPassphrase
C1_Failing ==
    /\ DecryptDone("none") /\ SameKey
    /\ encOpts.kdf.parallelism = BE(257, 4)
    /\ result = "WrongPassphrase"

\* C2: wrong key.  Whenever decrypt of the unmodified container with other
\* key material returns, for every plaintext, the empty one included, it
\* returns WrongPassphrase and the destination is as it was before the call.
C2_WrongKey ==
    (DecryptDone("none") /\ ~SameKey) =>
        (result = "WrongPassphrase" /\ fs["output"] = pre)

\* the empty plaintext decrypts under a wrong key
C2_Failing ==
    /\ DecryptDone("none") /\ ~SameKey
    /\ Len(InputPlaintext) = 0
    /\ result = "Ok"
    /\ fs["output"].exists /\ ~pre.exists

\* C3: one changed byte.  Whenever decrypt, with the right key material, of
\* a container in which one byte at any offset was changed returns, it
\* returns WrongPassphrase or CorruptFile and the destination is as it was.
C3_ByteChange ==
    (DecryptDone("flip") /\ SameKey) =>
        (result \in {"WrongPassphrase", "CorruptFile"} /\ fs["output"] = pre)

\* a changed byte of original_file_size (the last 16 header bytes hold the
\* two length fields) goes unnoticed
C3_Failing ==
    /\ DecryptDone("flip") /\ SameKey
    /\ Len(m.header_bytes) - 16 < tamper.at /\ tamper.at <= Len(m.header_bytes) - 8
    /\ result = "Ok"
    /\ fs["output"].exists /\ ~pre.exists

\* C4: appended bytes.  While a container with a non-empty suffix appended
\* is decrypted, neither the destination nor a temp file is written; when
\* decrypt returns it returns CorruptFile, from the size check.
C4_Appended ==
    /\ (op = "decrypt" /\ tamper.kind = "append") =>
           (fs["output"] = pre /\ ~fs["temp"].exists)
    /\ DecryptDone("append") =>
           (result = "CorruptFile" /\ pc = "d_validate")

\* a multi-chunk container with the longest suffix has been rejected
C4_Witness ==
    /\ DecryptDone("append") /\ SameKey
    /\ tamper.at = MaxSuffix
    /\ Len(InputPlaintext) > CHUNK_SIZE
    /\ result = "CorruptFile"
    /\ ~fs["output"].exists

\* C5: truncation.  While a container whose last k >= 1 bytes were removed,
\* the header left whole, is decrypted, neither the destination nor a temp
\* file is written; when decrypt returns it returns CorruptFile (not
\* WrongPassphrase, not Ok), from the size check.
C5_Truncated ==
    /\ (op = "decrypt" /\ tamper.kind = "truncate") =>
           (fs["output"] = pre /\ ~fs["temp"].exists)
    /\ DecryptDone("truncate") =>
           (result = "CorruptFile" /\ pc = "d_validate")

\* a two-chunk container cut exactly at the chunk boundary has been rejected
C5_Witness ==
    /\ DecryptDone("truncate") /\ SameKey
    /\ Len(InputPlaintext) = 2 * CHUNK_SIZE
    /\ tamper.at = CHUNK_SIZE + TAG_LEN
    /\ result = "CorruptFile"
    /\ ~fs["output"].exists

\* C6: fail closed.  Whenever decrypt has returned an error, an error of
\* restoring the mode included, the destination is as it was before the call.
C6_FailClosed ==
    (op = "decrypt" /\ result \in DecryptErrors) => fs["output"] = pre

\* set_permissions failed after the rename: an error, and the destination
\* holds the plaintext
C6_Failing ==
    /\ op = "decrypt" /\ result \in {"Permission", "Internal"} /\ SameKey
    /\ pc = "d_chmod"
    /\ Len(InputPlaintext) > 0
    /\ ~pre.exists
    /\ fs["output"].exists /\ fs["output"].data = InputPlaintext

\* C7: atomic output of encrypt.  In every state of an encrypt call the
\* destination is as it was before the call or holds the whole container,
\* header and every chunk and tag; after an error it is as it was and the
\* temp file is gone.
C7_Atomic ==
    (op = "encrypt" /\ tamper.kind = "none") =>
        /\ fs["container"] = pre \/ CompleteContainer(fs["container"])
        /\ (result \notin {"none", "Ok", "Killed"}) =>
               (fs["container"] = pre /\ ~fs["temp"].exists)

\* a multi-chunk container has replaced the file that was at the destination
C7_Witness ==
    /\ op = "encrypt" /\ result = "Ok" /\ tamper.kind = "none"
    /\ pre = OldFile
    /\ Len(InputPlaintext) > CHUNK_SIZE
    /\ fs["container"] # pre
    /\ CompleteContainer(fs["container"])

\* C8: kill.  When the process was killed before the rename, the destination
\* is as it was before the operation.
C8_Killed ==
    (result = "Killed" /\ pc # "d_chmod") => fs[opts.output_path] = pre

\* killed between flush and rename: the plaintext is in the temp file, the
\* destination does not exist
C8_Witness ==
    /\ result = "Killed" /\ op = "decrypt" /\ pc = "d_persist"
    /\ fs["temp"].exists /\ fs["temp"].data = InputPlaintext
    /\ Len(InputPlaintext) > 0
    /\ ~fs["output"].exists

\* C9: chunk binding.  Whenever decrypt, with the right key material, of a
\* container whose chunks were reordered or removed (the header lengths
\* edited to match) or whose header was changed returns Ok, the destination
\* holds the original plaintext.
C9_Bound ==
    (op = "decrypt" /\ result = "Ok" /\ SameKey
     /\ tamper.kind \in {"reorder", "cut", "flip"}) =>
        fs["output"].data = InputPlaintext

\* the last chunk was removed and decrypt returns Ok with a shorter output
C9_Failing ==
    /\ op = "decrypt" /\ result = "Ok" /\ SameKey
    /\ tamper.kind = "cut" /\ tamper.at = 1
    /\ Len(InputPlaintext) = 2 * CHUNK_SIZE
    /\ fs["output"].data = SubSeq(InputPlaintext, 1, CHUNK_SIZE)

\* C10: layout.  The container written by a successful encrypt of n bytes
\* has header_size + n + 16 * ceil(n / CHUNK_SIZE) bytes, and exactly
\* ceil(n / CHUNK_SIZE) chunks were sealed, each with one 16-byte tag.
C10_Layout ==
    (op = "encrypt" /\ result = "Ok" /\ tamper.kind = "none") =>
        LET n      == Len(InputPlaintext)
            chunks == CeilDiv(n, CHUNK_SIZE)
            data   == fs["container"].data
            header_size == 71 + (IF opts.store_filename THEN Len(InputFileName) ELSE 0)
        IN  /\ Len(data) = header_size + n + TAG_LEN * chunks
            /\ Len(oracle) = chunks
            /\ Cardinality({i \in DOMAIN data : "t" \in DOMAIN data[i]}) = TAG_LEN * chunks
            /\ Cardinality({i \in DOMAIN data : "p" \in DOMAIN data[i]}) = n
            /\ \A c \in 1..chunks :
                  Len(oracle[c].ct) = IF c < chunks \/ n % CHUNK_SIZE = 0
                                      THEN CHUNK_SIZE ELSE n % CHUNK_SIZE

\* one byte more than a chunk: two chunks and two tags
C10_Witness ==
    /\ op = "encrypt" /\ result = "Ok" /\ tamper.kind = "none"
    /\ Len(InputPlaintext) = CHUNK_SIZE + 1
    /\ Len(oracle) = 2
    /\ Len(fs["container"].data) = Len(m.header_bytes) + CHUNK_SIZE + 1 + 2 * TAG_LEN


\* a call of fn has returned
Called(fn) == call.fn = fn /\ call.done

\* C11: header codec round trip.  For every header, decode_header of
\* encode_header of it succeeds, returns a header equal to it field by
\* field, and consumes exactly the encoded bytes.
C11_CodecRoundTrip ==
    Called("codec") =>
        /\ call.ret.decoded.err = "none"
        /\ call.ret.decoded.header = call.arg
        /\ call.ret.decoded.consumed = Len(call.ret.bytes)

\* a version 2 header with a file name, a mode and a parallelism of 257
\* comes back with a parallelism of 1
C11_Failing ==
    /\ Called("codec")
    /\ call.arg.version = 2 /\ call.arg.filename.bytes = InputFileName /\ call.arg.mode.some
    /\ call.arg.kdf_params.parallelism = BE(257, 4)
    /\ call.ret.decoded.err = "none"
    /\ call.ret.decoded.header.kdf_params.parallelism = BE(1, 4)
    /\ call.ret.decoded.header =
           [call.arg EXCEPT !.kdf_params.parallelism = BE(1, 4)]


\* C12: per-chunk nonce.  derive_chunk_nonce(base, i) is 12 bytes, bytes
\* [0, 8) those of base, bytes [8, 12) those of base with the big-endian
\* bytes of i XORed in; index 0 gives base; two distinct indices give two
\* distinct nonces.
C12_ChunkNonce ==
    Called("nonce") =>
        LET base == call.arg.base
            i    == call.arg.i
            ni   == call.ret.ni
        IN  /\ Len(ni) = 12
            /\ \A k \in 1..8 : ni[k] = base[k]
            /\ \A k \in 9..12 : Xor(ni[k], base[k]) = i[k - 8]
            /\ BEIsZero(i) => ni = base
            /\ (i # call.arg.j) => (ni # call.ret.nj)

\* indices 256 and 0 under the random base: the nonces differ in byte 10
C12_Witness ==
    /\ Called("nonce")
    /\ call.arg.base \in Nonces
    /\ call.arg.i = <<0, 0, 1, 0>> /\ call.arg.j = BE(0, 4)
    /\ call.ret.nj = call.arg.base
    /\ call.ret.ni # call.ret.nj
    /\ call.ret.ni[11] # call.arg.base[11]

\* decrypt is at a chunk whose ciphertext and tag it has read in full
ChunkRead ==
    /\ op = "decrypt" /\ pc = "d_loop" /\ m.remaining > 0
    /\ Len(fs[opts.input_path].data) - m.rpos >= Min(m.remaining, CHUNK_SIZE) + TAG_LEN

\* the AEAD check of the chunk decrypt is at fails: the chunk was not sealed
\* under the derived key, the chunk nonce and the chunk AAD
AuthFails ==
    /\ ChunkRead
    /\ LET n    == Min(m.remaining, CHUNK_SIZE)
           data == fs[opts.input_path].data
       IN  ~TagOk(oracle, m.key, derive_chunk_nonce(m.header.nonce, m.chunk_index),
                  build_chunk_aad(m.aad, m.chunk_index),
                  Slice(data, m.rpos, m.rpos + n),
                  Slice(data, m.rpos + n, m.rpos + n + TAG_LEN))

\* C13: decrypt returns WrongPassphrase if and only if the AEAD check of a
\* chunk failed: a run that reaches a chunk, reads it in full and finds its
\* authentication failing returns WrongPassphrase, and a run that returns for
\* any other reason (header, sizes, truncation, I/O, KDF, rename, chmod, or
\* success) does not return WrongPassphrase.
C13_AuthOnly ==
    Returned("decrypt") =>
        ((result = "WrongPassphrase") <=> (AuthFails /\ ~fault))

\* the second chunk of a container fails to authenticate under the right key
C13_Witness ==
    /\ Returned("decrypt") /\ result = "WrongPassphrase"
    /\ SameKey /\ tamper.kind = "flip" /\ m.chunk_index = BE(1, 4)
    /\ AuthFails

\* the bytes of a file are not a container header: too short for the fixed
\* part or for the filename and the lengths that follow it, wrong magic, a
\* version other than 1 and 2, a KDF other than Argon2id, a salt length other
\* than 16, a nonce length other than 12, or a filename that is not UTF-8
HeaderDefect(data) ==
    LET b  == Vals(data)
        fl == b[50] * 256 + b[51]
    IN  \/ Len(b) < 67
        \/ /\ Len(b) >= 67
           /\ \/ Slice(b, 0, 8) # MAGIC
              \/ b[9] \notin {1, 2}
              \/ b[10] # 1
              \/ b[20] # 16
              \/ b[37] # 12
              \/ Len(b) < (IF b[9] = 2 THEN 71 ELSE 67) + fl
              \/ fl > 0 /\ Len(b) >= 51 + fl /\ ~ValidUtf8(Slice(b, 51, 51 + fl))

\* C14: every header codec failure surfaces as CorruptFile.  When decrypt
\* returns from a run whose system calls all succeeded and the input does not
\* start with a well-formed header, it returns CorruptFile, the destination is
\* as it was and no temp file is left, and the process exits with code 2
\* after the one error event "corrupt_file".
C14_HeaderFailure ==
    (Returned("decrypt") /\ ~fault /\ HeaderDefect(fs[opts.input_path].data)) =>
        /\ result = "CorruptFile"
        /\ pc = "d_validate"
        /\ fs[opts.output_path] = pre
        /\ ~fs["temp"].exists
        /\ exit.exited => (exit.code = 2 /\ stderr = <<[error |-> "corrupt_file"]>>)

\* the process has exited with code 2 on a container whose stored filename
\* was made invalid UTF-8
C14_Witness ==
    /\ Returned("decrypt") /\ ~fault /\ HeaderDefect(fs[opts.input_path].data)
    /\ tamper.kind = "header" /\ tamper.at = 51
    /\ read_header_from_reader(Vals(fs[opts.input_path].data)).err = "InvalidFilename"
    /\ ~pre.exists /\ ~fs[opts.output_path].exists
    /\ exit.exited /\ exit.code = 2

\* the process ended with this exit code after writing these error events
ExitedWith(code, errors) ==
    exit.code = code /\ stderr = [i \in 1..Len(errors) |-> [error |-> errors[i]]]

\* C15: the exit code and error tag of every outcome.  A process that has
\* exited did so with 0 and no error event after Ok, 1 and "wrong_passphrase"
\* after WrongPassphrase, 2 and "corrupt_file" after CorruptFile, 3 and
\* "permission_error" after Permission, 10 and "internal_error" after
\* Internal and when the key material could not be read; and an encrypt
\* process never exits with 1 or 2.
C15_ExitMap ==
    exit.exited =>
        /\ pc = "m_key" => ExitedWith(10, <<"internal_error">>)
        /\ result = "Ok" => ExitedWith(0, <<>>)
        /\ result = "WrongPassphrase" => ExitedWith(1, <<"wrong_passphrase">>)
        /\ result = "CorruptFile" => ExitedWith(2, <<"corrupt_file">>)
        /\ result = "Permission" => ExitedWith(3, <<"permission_error">>)
        /\ result = "Internal" => ExitedWith(10, <<"internal_error">>)
        /\ op = "encrypt" => exit.code \notin {1, 2}

\* a decrypt process that could not create its temp file for lack of
\* permission has exited with 3
C15_Witness ==
    /\ exit.exited /\ op = "decrypt" /\ pc = "d_temp" /\ result = "Permission"
    /\ ExitedWith(3, <<"permission_error">>)

\* C16: the size guard of encrypt accepts every input of at most
\* 2^32 * CHUNK_SIZE bytes and rejects an input, with Internal, exactly when
\* its size exceeds 2^32 * CHUNK_SIZE bytes.
C16_SizeGuard ==
    Called("guard") =>
        ((call.ret = "Internal") <=> BELt(BEMul(Pow32, CHUNK_SIZE), call.arg.input_size))

\* an input of (2^32 - 1) * CHUNK_SIZE + 1 bytes, which is no more than
\* 2^32 * CHUNK_SIZE, is rejected
C16_Failing ==
    /\ Called("guard")
    /\ call.arg.input_size = BEAdd(BEMul(BECast(U32_MAX, 8), CHUNK_SIZE), BE(1, 8))
    /\ ~BELt(BEMul(Pow32, CHUNK_SIZE), call.arg.input_size)
    /\ call.ret = "Internal"

\* the header at the start of a file
HeaderOf(file) == read_header_from_reader(Vals(file.data)).header

\* C17: POSIX mode round trip.  A container encrypt has just written is
\* version 2 and carries the input file's mode & 07777.  After a successful
\* decrypt the destination's permission bits are the header's mode & 07777
\* when that mode is present and non-zero, and otherwise (mode zero, or a
\* version 1 header without a mode) they are the bits the file was created
\* with, 0600: no permission change is made.
C17_ModeRoundTrip ==
    /\ (op = "encrypt" /\ result = "Ok" /\ tamper.kind = "none") =>
           /\ HeaderOf(fs["container"]).version = 2
           /\ HeaderOf(fs["container"]).mode =
                  [some |-> TRUE, bits |-> BE(fs["input"].mode % 4096, 4)]
    /\ (op = "decrypt" /\ result = "Ok") =>
           LET mode == HeaderOf(fs["container"]).mode
           IN  fs["output"].mode =
                  IF mode.some /\ mode.bits # <<0, 0, 0, 0>>
                  THEN (mode.bits[3] * 256 + mode.bits[4]) % 4096
                  ELSE 384

\* a file of mode 0640 was encrypted and decrypted: the restored file has
\* mode 0640
C17_Witness ==
    /\ op = "decrypt" /\ result = "Ok" /\ tamper.kind = "none"
    /\ fs["input"].mode % 4096 = 416
    /\ HeaderOf(fs["container"]).mode.bits = BE(416, 4)
    /\ fs["output"].mode = 416

\* one progress event
Progress(phase, bytes_processed, total_bytes) ==
    [phase |-> phase, bytes_processed |-> bytes_processed, total_bytes |-> total_bytes]

\* the two events of the key derivation
KdfEvents == <<Progress("kdf", 0, 0), Progress("kdf", 1, 1)>>

\* one event per chunk of an operation on total bytes, with the cumulative count
ChunkEvents(phase, total) ==
    [c \in 1..CeilDiv(total, CHUNK_SIZE) |->
        Progress(phase, Min(c * CHUNK_SIZE, total), total)]

\* C18: the progress events of a successful encrypt or decrypt of n chunks
\* are, in order: kdf 0/0, kdf 1/1, one event per chunk in the operation's
\* phase with the cumulative byte count, and one final event with
\* bytes_processed = total_bytes; the phase carries n + 1 events.
C18_ProgressOrder ==
    (op \in {"encrypt", "decrypt"} /\ result = "Ok") =>
        events = KdfEvents \o ChunkEvents(op, m.total)
                 \o <<Progress(op, m.total, m.total)>>

\* a successful encrypt of two chunks has written four events in its phase:
\* one with 0 bytes before the first chunk, one per chunk, and the final one
C18_Failing ==
    /\ op = "encrypt" /\ result = "Ok" /\ tamper.kind = "none"
    /\ CeilDiv(m.total, CHUNK_SIZE) = 2
    /\ events = KdfEvents \o <<Progress("encrypt", 0, m.total)>>
                 \o ChunkEvents("encrypt", m.total)
                 \o <<Progress("encrypt", m.total, m.total)>>
    /\ Len(SelectSeq(events, LAMBDA e : e.phase = "encrypt")) = 4

C20_OneError ==
    exit.exited =>
        IF result = "Ok"
        THEN exit.code = 0 /\ stderr = <<>>
        ELSE exit.code # 0 /\ Len(stderr) = 1

\* decrypt of a container whose ciphertext_length field holds 2^64 - 1, in a
\* build with overflow checks: the process has ended with status 101 and has
\* written no error event
C20_Failing ==
    /\ exit.exited /\ op = "decrypt" /\ pc = "d_validate" /\ result = "Panic"
    /\ tamper.kind = "length"
    /\ HeaderOf(fs["container"]).ciphertext_length = Repeat(255, 8)
    /\ exit.code = 101 /\ stderr = <<>>

\* header_size + ciphertext_length + TAG_LEN * ceil(ciphertext_length / CHUNK_SIZE)
\* as an unbounded integer: 10 digits hold it for every u64 ciphertext_length
TrueExpectedTotal(header_size, ciphertext_length) ==
    LET len    == BECast(ciphertext_length, 10)
        chunks == BEDiv(BEAdd(len, BE(CHUNK_SIZE - 1, 10)), CHUNK_SIZE)
    IN  BEAdd(BEAdd(BE(header_size, 10), len), BEMul(chunks, TAG_LEN))

\* the file starts with a well-formed header and its length is not the one
\* the header's ciphertext_length calls for
SizeMismatch(file) ==
    LET h == read_header_from_reader(Vals(file.data))
    IN  /\ h.err = "none"
        /\ BE(Len(file.data), 10) # TrueExpectedTotal(h.consumed, h.header.ciphertext_length)

\* C21: the size equation is checked first.  When decrypt returns from a run
\* whose system calls all succeeded on an input whose length differs from
\* header size + ciphertext_length + 16 * ceil(ciphertext_length / CHUNK_SIZE),
\* it returns CorruptFile, having emitted no progress event, created no temp
\* file and decrypted no chunk.
C21_SizeFirst ==
    (Returned("decrypt") /\ ~fault /\ SizeMismatch(fs[opts.input_path])) =>
        /\ result = "CorruptFile"
        /\ pc = "d_validate"
        /\ events = <<>>
        /\ ~fs["temp"].exists
        /\ fs[opts.output_path] = pre
        /\ m.wbuf = <<>> /\ m.bytes_done = 0

\* a container whose ciphertext_length field holds 2^64 - 1 does not satisfy
\* the size equation, and decrypt has ended in a panic, not with CorruptFile
C21_Failing ==
    /\ Returned("decrypt") /\ ~fault /\ SizeMismatch(fs[opts.input_path])
    /\ tamper.kind = "length"
    /\ result = "Panic"
    /\ events = <<>> /\ ~fs["temp"].exists

\* C22: the chunk-count guard of decrypt accepts every ciphertext_length whose
\* chunk count ceil(ciphertext_length / CHUNK_SIZE) is at most 2^32, and
\* returns CorruptFile exactly when the chunk count exceeds 2^32, that is when
\* ciphertext_length exceeds 2^32 * CHUNK_SIZE.
C22_CountGuard ==
    Called("count") =>
        ((call.ret = "CorruptFile") <=>
            BELt(BEMul(Pow32, CHUNK_SIZE), call.arg.ciphertext_length))

\* a ciphertext_length of 2^32 * CHUNK_SIZE, of exactly 2^32 chunks, is
\* rejected with CorruptFile
C22_Failing ==
    /\ Called("count")
    /\ call.arg.ciphertext_length = BEMul(Pow32, CHUNK_SIZE)
    /\ BEDiv(BEAdd(call.arg.ciphertext_length, BE(CHUNK_SIZE - 1, 8)), CHUNK_SIZE) = Pow32
    /\ call.ret = "CorruptFile"

\* the input starts with a well-formed header whose two length fields differ
LengthsDiffer(file) ==
    LET h == read_header_from_reader(Vals(file.data))
    IN  h.err = "none" /\ h.header.original_file_size # h.header.ciphertext_length

\* C23: the header invariant ciphertext_length = original_file_size.  Every
\* container encrypt has just written satisfies it, and decrypt rejects with
\* CorruptFile every container whose header violates it.
C23_LengthInvariant ==
    /\ (op = "encrypt" /\ result = "Ok" /\ tamper.kind = "none") =>
           ~LengthsDiffer(fs["container"])
    /\ (Returned("decrypt") /\ ~fault /\ LengthsDiffer(fs[opts.input_path])) =>
           result = "CorruptFile"

\* a byte of original_file_size was changed in a container of a non-empty
\* plaintext; decrypt with the right key has returned Ok and written the
\* plaintext
C23_Failing ==
    /\ Returned("decrypt") /\ ~fault /\ LengthsDiffer(fs[opts.input_path])
    /\ SameKey /\ tamper.kind = "flip"
    /\ Len(InputPlaintext) > 0
    /\ HeaderOf(fs["container"]).ciphertext_length = BE(Len(InputPlaintext), 8)
    /\ result = "Ok"
    /\ fs["output"].data = InputPlaintext

\* the system calls of decrypt on its input: open (at d_validate), the reads
\* of the header, fs::metadata, the read of a chunk (at d_loop)
InputCalls == {"d_validate", "read_header", "stat", "d_loop"}

\* C24: classification of I/O errors on the input of decrypt.  When decrypt
\* returns after a system call on its input failed, it returns Permission if
\* the error was a permission denial and Internal for any other error (an
\* end of file is not an error of a system call): never CorruptFile or
\* WrongPassphrase.
C24_IoClass ==
    (Returned("decrypt") /\ ioerr.at \in InputCalls) =>
        /\ ioerr.kind = "denied" => result = "Permission"
        /\ ioerr.kind = "other" => result = "Internal"

\* a read of the header of a whole, unmodified container failed with an error
\* that is neither a permission denial nor an end of file, and decrypt has
\* returned CorruptFile
C24_Failing ==
    /\ Returned("decrypt") /\ tamper.kind = "none"
    /\ ~HeaderDefect(fs[opts.input_path].data)
    /\ ~SizeMismatch(fs[opts.input_path])
    /\ ioerr = [at |-> "read_header", kind |-> "other"]
    /\ result = "CorruptFile"

\* the nonce of the chunk with index k < 256: the base nonce with k XORed into
\* its last byte
NonceOfIndex(base, k) == [base EXCEPT ![NONCE_LEN] = Xor(@, k)]

\* C25: chunk index discipline.  In encrypt the index is the number of chunks
\* sealed so far, and the k-th chunk sealed (k from 0) used the nonce and the
\* AAD (header AAD followed by the 32-bit big-endian k) of index k, so no two
\* chunks of the file share a nonce.  In decrypt the index is the number of
\* chunks consumed so far, and the chunk it is at is the one at that position
\* of the file.
C25_IndexDiscipline ==
    /\ (op = "encrypt" /\ pc \in {"e_loop", "e_persist", "done"}) =>
          /\ m.chunk_index = BE(Len(oracle), 4)
          /\ \A k \in 1..Len(oracle) :
                /\ oracle[k].nonce = NonceOfIndex(m.nonce_bytes, k - 1)
                /\ oracle[k].aad = m.aad \o <<0, 0, 0, k - 1>>
          /\ \A j, k \in 1..Len(oracle) : j # k => oracle[j].nonce # oracle[k].nonce
    /\ (op = "decrypt" /\ pc \in {"d_loop", "d_persist", "d_chmod", "done"}) =>
          /\ m.chunk_index = BE(CeilDiv(m.bytes_done, CHUNK_SIZE), 4)
          /\ m.remaining > 0 =>
                m.rpos = Len(m.header_bytes)
                         + BEVal(m.chunk_index) * (CHUNK_SIZE + TAG_LEN)

\* encrypt has sealed two chunks and decrypt has consumed both of them
C25_Witness ==
    /\ op = "decrypt" /\ result = "Ok" /\ tamper.kind = "none"
    /\ Len(oracle) = 2
    /\ oracle[2].nonce = NonceOfIndex(m.header.nonce, 1)
    /\ oracle[1].nonce # oracle[2].nonce
    /\ m.chunk_index = BE(2, 4)

RECURSIVE SumSeq(_)
SumSeq(q) == IF Len(q) = 0 THEN 0 ELSE Head(q) + SumSeq(Tail(q))

\* the reader gave an error other than Interrupted
ReadError(trace) == \E i \in 1..Len(trace) : trace[i].k = "err"

\* C26: encrypt's chunking does not depend on how the reader splits its
\* reads.  Whatever short reads and Interrupted errors the reader returns,
\* when it returns no other error encrypt's loop ends with chunks that hold
\* every input byte once: each chunk but the last is CHUNK_SIZE bytes, the
\* last is 1..CHUNK_SIZE bytes, and the lengths sum to the input length; and
\* when the reader returns another error the loop aborts with Internal at
\* that read.  In every case a chunk is shorter than CHUNK_SIZE only when it
\* is the last one and the input is used up.
C26_Chunking ==
    Called("read") =>
        LET ret == call.ret
            n   == Len(ret.chunks)
        IN  /\ (ret.status = "Internal") <=> ReadError(ret.trace)
            /\ ReadError(ret.trace) => ret.trace[Len(ret.trace)].k = "err"
            /\ ~ReadError(call.arg.script) => ret.status = "ok"
            /\ ret.status = "ok" =>
                  /\ n = CeilDiv(call.arg.len, CHUNK_SIZE)
                  /\ \A c \in 1..n : ret.chunks[c] =
                        IF c < n THEN CHUNK_SIZE
                        ELSE call.arg.len - (n - 1) * CHUNK_SIZE
                  /\ SumSeq(ret.chunks) = call.arg.len
            /\ \A c \in 1..n :
                  /\ ret.chunks[c] \in 1..CHUNK_SIZE
                  /\ c < n => ret.chunks[c] = CHUNK_SIZE
                  /\ ret.chunks[c] < CHUNK_SIZE => SumSeq(ret.chunks) = call.arg.len

\* the reader was interrupted and gave one byte at a time; the input of more
\* than a chunk still came out in full chunks
C26_Witness ==
    /\ Called("read")
    /\ call.arg.len > CHUNK_SIZE
    /\ \E i, j \in 1..Len(call.arg.script) :
          /\ i < j
          /\ call.arg.script[i] = [k |-> "data", n |-> 1]
          /\ call.arg.script[j].k = "intr"
    /\ call.ret.status = "ok"
    /\ Len(call.ret.chunks) = CeilDiv(call.arg.len, CHUNK_SIZE)
    /\ call.ret.chunks[1] = CHUNK_SIZE
    /\ \E i \in 1..Len(call.ret.trace) : call.ret.trace[i].k = "intr"

\* C27: the temp file of encrypt has mode 0600 before anything is written.
\* While encrypt runs, whenever a header or ciphertext byte has been handed
\* to the writer or has reached the temp file, the temp file exists with mode
\* 0600 and the mode was set before; and when setting the mode fails, encrypt
\* returns an error with nothing written, the temp file gone and the
\* destination as it was.
C27_TempMode ==
    /\ (op = "encrypt" /\ result \in {"none", "Killed"}
        /\ (m.wbuf # <<>> \/ fs["temp"].data # <<>>)) =>
           /\ fs["temp"].exists
           /\ fs["temp"].mode = 384
           /\ pc \in {"e_loop", "e_persist"}
    /\ (op = "encrypt" /\ pc \in {"e_temp", "e_chmod"}) =>
           m.wbuf = <<>> /\ fs["temp"].data = <<>>
    /\ (Returned("encrypt") /\ pc = "e_chmod") =>
           /\ result \in {"Permission", "Internal"}
           /\ m.wbuf = <<>>
           /\ ~fs["temp"].exists
           /\ fs[opts.output_path] = pre

\* setting the mode failed: encrypt has returned Internal and the destination
\* does not exist
C27_Witness ==
    /\ Returned("encrypt") /\ pc = "e_chmod"
    /\ ioerr = [at |-> "e_chmod", kind |-> "other"]
    /\ result = "Internal"
    /\ m.wbuf = <<>> /\ ~fs["temp"].exists
    /\ ~pre.exists /\ ~fs["container"].exists

\* the number of bytes of a file that are ciphertext, and that are tag bytes
CtBytes(file) == Cardinality({i \in DOMAIN file.data : "p" \in DOMAIN file.data[i]})

TagCount(file) == Cardinality({i \in DOMAIN file.data : "t" \in DOMAIN file.data[i]})

\* C28: the length equation under a concurrent change of the input.  Every
\* container encrypt has renamed to the destination, also when another
\* process changed the length of the input between the stat and the end of
\* the read loop, holds after its header exactly ciphertext_length ciphertext
\* bytes and ceil(ciphertext_length / CHUNK_SIZE) tags, ciphertext_length
\* being the value in that header.
C28_LengthEquation ==
    (op = "encrypt" /\ result = "Ok") =>
        LET file == fs["container"]
            len  == BEVal(HeaderOf(file).ciphertext_length)
        IN  /\ ~SizeMismatch(file)
            /\ CtBytes(file) = len
            /\ TagCount(file) = TAG_LEN * CeilDiv(len, CHUNK_SIZE)

\* a byte was appended to the input after the stat: encrypt has committed a
\* container with one ciphertext byte more than its header says
C28_Failing ==
    /\ op = "encrypt" /\ result = "Ok" /\ tamper.kind = "resize"
    /\ Len(fs["input"].data) = m.total + 1
    /\ HeaderOf(fs["container"]).ciphertext_length = BE(m.total, 8)
    /\ CtBytes(fs["container"]) = m.total + 1
    /\ SizeMismatch(fs["container"])

\* C29: the size arithmetic of decrypt.  For every 64-bit ciphertext_length
\* of a parsed header, the additions that compute the chunk count and the
\* expected file length stay within the range of their integers, decrypt does
\* not end in a panic, and it returns CorruptFile whenever the expected
\* length, computed without a bound, differs from the length of the file.
C29_NoOverflow ==
    Called("size") =>
        /\ ~call.ret.overflow
        /\ call.ret.verdict # "Panic"
        /\ (BE(call.arg.file_len, 10)
                # TrueExpectedTotal(call.arg.header_size, call.arg.ciphertext_length)
            => call.ret.verdict = "CorruptFile")

\* ciphertext_length = 2^64 - 1: adding CHUNK_SIZE - 1 leaves the range of
\* usize, and the build with overflow checks panics
C29_Failing ==
    /\ Called("size")
    /\ call.arg.ciphertext_length = Repeat(255, 8)
    /\ ~call.arg.wraps
    /\ call.ret.overflow
    /\ call.ret.verdict = "Panic"
    /\ BE(call.arg.file_len, 10)
           # TrueExpectedTotal(call.arg.header_size, call.arg.ciphertext_length)

\* C30: termination.  Each iteration of decrypt's chunk loop strictly lowers
\* the remaining ciphertext, and the loop ends after exactly
\* ceil(ciphertext_length / CHUNK_SIZE) iterations unless it fails; encrypt's
\* loop goes on while a read returns bytes and ends at the read of zero
\* bytes; and, the process being scheduled and the reader not returning
\* Interrupted forever, every started operation eventually commits the
\* destination (Ok) or returns an error.
C30_Terminates ==
    /\ [][(Running("decrypt", "d_loop") /\ pc' = "d_loop" /\ result' = "none")
            => m'.remaining < m.remaining]_vars
    /\ []((op = "decrypt" /\ pc \in {"d_persist", "d_chmod", "done"}) =>
            /\ m.remaining = 0
            /\ m.chunk_index = BE(CeilDiv(m.total, CHUNK_SIZE), 4))
    /\ [][(Running("encrypt", "e_loop") /\ result' = "none") =>
            IF m.rpos < Len(fs[opts.input_path].data)
            THEN pc' = "e_loop" /\ m'.rpos > m.rpos
            ELSE pc' # "e_loop"]_vars
    /\ ((op # "none" /\ result = "none") ~> (result \in {"Ok"} \cup DecryptErrors))

\* decrypt was started on a container whose ciphertext_length is 2^64 - 1 and
\* has ended in a panic: it has neither committed nor returned an error
C30_Failing ==
    /\ op = "decrypt" /\ tamper.kind = "length"
    /\ result = "Panic"
    /\ fs[opts.output_path] = pre

====
